---- MODULE Spec2Model ----
(***************************************************************************)
(* Model of the cache engine of cache-nest: the replacement policies       *)
(* (apps/api/src/policies), the in-memory storage driver                   *)
(* (apps/api/src/drivers/memory.ts) and its snapshot recovery.             *)
(*                                                                         *)
(* JavaScript objects are modelled as records, Map objects as functions    *)
(* whose DOMAIN is the key set, arrays as sequences (1-based), linked-list *)
(* nodes as cells of a per-policy heap `nodes` addressed by their index    *)
(* (0 is the null reference).                                              *)
(***************************************************************************)
EXTENDS Integers, Sequences, FiniteSets, TLC

\* ------------------------------------------------------------------------
\* Bounds of the model
\* ------------------------------------------------------------------------
\* Number of linked-list nodes / tracked insertions one policy may allocate.
MaxNodes == 3
\* Highest hit count a key may reach (MFU hit counter, entry hits).
MaxHits == 2

\* The number of calls the callers make.
MaxCalls == 3

\* ------------------------------------------------------------------------
\* JavaScript values
\* ------------------------------------------------------------------------
\* `null` as the result of evict() / get().
Null == "null"
\* `undefined` as an array element.
Undefined == "undefined"
\* The null node reference.
NoNode == 0

EmptyMap == [x \in {} |-> 0]

Has(m, k) == k \in DOMAIN m

MapSet(m, k, v) == [x \in (DOMAIN m) \cup {k} |-> IF x = k THEN v ELSE m[x]]

MapDel(m, k) == [x \in (DOMAIN m) \ {k} |-> m[x]]

\* Array.prototype.findIndex(e => e === x), 1-based; 0 stands for -1.
IndexOf(seq, x) ==
  IF \E i \in 1..Len(seq) : seq[i] = x
  THEN CHOOSE i \in 1..Len(seq) : seq[i] = x /\ \A j \in 1..(i - 1) : seq[j] # x
  ELSE 0

\* Array.prototype.splice(i, 1) with a 1-based index.
Splice(seq, i) == [j \in 1..(Len(seq) - 1) |-> IF j < i THEN seq[j] ELSE seq[j + 1]]

\* Array.prototype.filter(e => e !== x).
Without(seq, x) == SelectSeq(seq, LAMBDA e : e # x)

\* Array.prototype.filter(e => set.has(e)).
Within(seq, set) == SelectSeq(seq, LAMBDA e : e \in set)

\* lodash max() of a list of numbers, `|| 0` applied (max of nothing is undefined).
MaxOrZero(S) == IF S = {} THEN 0 ELSE CHOOSE x \in S : \A y \in S : y <= x

MinOrZero(S) == IF S = {} THEN 0 ELSE CHOOSE x \in S : \A y \in S : x <= y

Range(seq) == {seq[i] : i \in 1..Len(seq)}

\* ------------------------------------------------------------------------
\* Policy objects
\* ------------------------------------------------------------------------
\* The policies in the declaration order of MemoryDriver._policies.
Policies == <<"LRU", "MRU", "RR", "FIFO", "MFU", "LFU">>

PolicySet == Range(Policies)

\* A freshly constructed policy of the given kind.  One record shape serves
\* all kinds; a kind leaves the fields of the other kinds untouched.
NewPolicy(kind) ==
  [ policy           |-> kind,
    \* BasePolicy
    ttlMap           |-> EmptyMap,   \* hash -> Timeout [hash, at, id]
    timeouts         |-> {},         \* the Timeouts that are still scheduled
    \* LRUPolicy / MRUPolicy
    mostRecentlyUsed |-> NoNode,
    leastRecentlyUsed |-> NoNode,
    nodes            |-> << >>,      \* heap of Node objects [key, prev, next]
    cacheKeyMap      |-> EmptyMap,   \* LRU/MRU: hash -> node; MFU/LFU: hash -> hits
    keyOrder         |-> << >>,
    \* MFUPolicy / LFUPolicy
    keyOrderMap      |-> EmptyMap,   \* hits -> array of hashes
    highestHitCount  |-> 0,
    lowestHitCount   |-> 0,
    \* FIFOPolicy
    queue            |-> << >>,
    hashes           |-> {},
    \* RRPolicy
    cacheKeys        |-> << >> ]

\* A clearTimeout that leaves the Timeout scheduled.
ClearTimeoutIgnored(s, timeout) == s

\* clearTimeout(timeout): the Timeout is no longer scheduled.
ClearTimeout(s, timeout) == [s EXCEPT !.timeouts = @ \ {timeout}]

\* A clearTTL that forgets the table entry and leaves its Timeout scheduled.
ClearTTLKeepsTimeout(s, hash) ==
  IF Has(s.ttlMap, hash) THEN [s EXCEPT !.ttlMap = MapDel(@, hash)] ELSE s

\* The events BasePolicy.clearTTL emits.
ClearTTLEvents(s, hash) == IF Has(s.ttlMap, hash) THEN <<"ttlCleared">> ELSE << >>

\* BasePolicy.clearTTL
ClearTTL(s, hash) ==
  IF Has(s.ttlMap, hash)
  THEN [ClearTimeout(s, s.ttlMap[hash]) EXCEPT !.ttlMap = MapDel(@, hash)]
  ELSE s

\* setTimeout(callback, ttl) at clock value t: a new Timeout object of the
\* key, told apart from the scheduled ones of the key by its id.
SetTimeout(s, hash, ttl, t) ==
  [ hash |-> hash,
    at   |-> t + ttl,
    id   |-> CHOOSE i \in 0..Cardinality(s.timeouts) :
               /\ \A u \in s.timeouts : u.hash = hash => u.id # i
               /\ \A j \in 0..(i - 1) : \E u \in s.timeouts : u.hash = hash /\ u.id = j ]

\* BasePolicy.registerTTL at clock value t: the timer fires ttl later.
RegisterTTL(s, hash, ttl, t) ==
  LET c == ClearTTL(s, hash)
      timeout == SetTimeout(c, hash, ttl, t)
  IN  [c EXCEPT !.ttlMap = MapSet(@, hash, timeout),
                !.timeouts = @ \cup {timeout}]

\* The body of the setTimeout callback of a scheduled Timeout up to the emit:
\* the Timeout has run and the key leaves the table.
TimeoutCallback(s, timeout) ==
  [s EXCEPT !.timeouts = @ \ {timeout}, !.ttlMap = MapDel(@, timeout.hash)]

\* The scheduled Timeouts of the key.
TimeoutsOf(s, hash) == {timeout \in s.timeouts : timeout.hash = hash}

\* A scheduled Timeout of the key fires.
TimerElapsed(s, hash) ==
  TimeoutCallback(s, CHOOSE timeout \in TimeoutsOf(s, hash) :
                       \A u \in TimeoutsOf(s, hash) : timeout.at <= u.at /\ (timeout.at = u.at => timeout.id <= u.id))

\* ---------------- LRU ----------------

KeyOf(s, n) == IF n = NoNode THEN Undefined ELSE s.nodes[n].key

LRUTrack(s, hash) ==
  IF Has(s.cacheKeyMap, hash) THEN s
  ELSE
    LET n  == Len(s.nodes) + 1
        mr == s.mostRecentlyUsed
        linked == IF mr # NoNode THEN [s.nodes EXCEPT ![mr].next = n] ELSE s.nodes
        node == [key |-> hash, prev |-> mr, next |-> NoNode]
    IN  [s EXCEPT !.nodes = Append(linked, node),
                  !.mostRecentlyUsed = n,
                  !.leastRecentlyUsed = IF @ = NoNode THEN n ELSE @,
                  !.cacheKeyMap = MapSet(@, hash, n),
                  !.keyOrder = Append(@, hash)]

\* The four unlink statements shared by stopTracking and the MRU ttlExpired listener.
Unlink(s, n) ==
  LET key == s.nodes[n].key
      s1 == IF KeyOf(s, s.leastRecentlyUsed) = key
            THEN [s EXCEPT !.leastRecentlyUsed = s.nodes[n].next] ELSE s
      s2 == IF KeyOf(s1, s1.mostRecentlyUsed) = key
            THEN [s1 EXCEPT !.mostRecentlyUsed = s1.nodes[n].prev] ELSE s1
      s3 == IF s2.nodes[n].prev # NoNode
            THEN [s2 EXCEPT !.nodes[s2.nodes[n].prev].next = s2.nodes[n].next] ELSE s2
      s4 == IF s3.nodes[n].next # NoNode
            THEN [s3 EXCEPT !.nodes[s3.nodes[n].next].prev = s3.nodes[n].prev] ELSE s3
  IN  s4

LRUStopTracking(s, hash) ==
  IF ~Has(s.cacheKeyMap, hash) THEN s
  ELSE
    LET n  == s.cacheKeyMap[hash]
        s4 == Unlink(s, n)
        s5 == ClearTTL([s4 EXCEPT !.cacheKeyMap = MapDel(@, hash)], s4.nodes[n].key)
        index == IndexOf(s5.keyOrder, hash)
    IN  IF index # 0 THEN [s5 EXCEPT !.keyOrder = Splice(@, index)] ELSE s5

\* The linked-list part of hit(): unlink the node and append it behind the
\* most recently used node.
MoveToMostRecent(s, n) ==
  LET s1 == IF s.nodes[n].next # NoNode
            THEN [s EXCEPT !.nodes[s.nodes[n].next].prev = s.nodes[n].prev] ELSE s
      s2 == IF s1.nodes[n].prev # NoNode
            THEN [s1 EXCEPT !.nodes[s1.nodes[n].prev].next = s1.nodes[n].next] ELSE s1
      s3 == IF KeyOf(s2, s2.leastRecentlyUsed) = s2.nodes[n].key
            THEN [s2 EXCEPT !.leastRecentlyUsed = s2.nodes[n].next] ELSE s2
      s4 == IF s3.mostRecentlyUsed # NoNode
            THEN [s3 EXCEPT !.nodes[s3.mostRecentlyUsed].next = n,
                            !.nodes[n].prev = s3.mostRecentlyUsed]
            ELSE s3
  IN  [s4 EXCEPT !.mostRecentlyUsed = n, !.nodes[n].next = NoNode]

\* A hit() that leaves the order of the keys as it is.
LRUHitSkipped(s, hash) == s

LRUHit(s, hash) ==
  IF Has(s.cacheKeyMap, hash)
     /\ s.nodes[s.cacheKeyMap[hash]].key # KeyOf(s, s.mostRecentlyUsed)
  THEN
    LET n  == s.cacheKeyMap[hash]
        s5 == MoveToMostRecent(s, n)
        index == IndexOf(s5.keyOrder, s5.nodes[n].key)
    IN  IF Len(s5.keyOrder) > 1
        THEN [s5 EXCEPT !.keyOrder =
                Append(IF index # 0 THEN Splice(@, index) ELSE Splice(@, Len(@)), hash)]
        ELSE s5
  ELSE s

LRUEvict(s) ==
  IF s.leastRecentlyUsed = NoNode THEN [hash |-> Null, state |-> s]
  ELSE
    LET hashToEvict == s.nodes[s.leastRecentlyUsed].key
        newLeastRecentlyUsedNode == s.nodes[s.leastRecentlyUsed].next
        s1 == ClearTTL(s, hashToEvict)
        s2 == [s1 EXCEPT !.cacheKeyMap = MapDel(@, hashToEvict),
                         !.keyOrder = Without(@, hashToEvict)]
        s3 == IF newLeastRecentlyUsedNode # NoNode
              THEN [s2 EXCEPT !.nodes[newLeastRecentlyUsedNode].prev = NoNode] ELSE s2
    IN  [hash |-> hashToEvict,
         state |-> [s3 EXCEPT !.leastRecentlyUsed = newLeastRecentlyUsedNode]]

\* evict() of the LRUPolicy built on utils/linked-list: the least recently
\* used node leaves the list through LinkedList.remove, which stopTracking
\* uses too.
LinkedListEvict(s) ==
  IF s.leastRecentlyUsed = NoNode THEN [hash |-> Null, state |-> s]
  ELSE LET hashToEvict == s.nodes[s.leastRecentlyUsed].key
       IN  [hash |-> hashToEvict, state |-> LRUStopTracking(s, hashToEvict)]

\* The results of calling that evict() until it returns null.
RECURSIVE LinkedListEvictAll(_)
LinkedListEvictAll(s) ==
  LET r == LinkedListEvict(s)
  IN  IF r.hash = Null THEN << >> ELSE <<r.hash>> \o LinkedListEvictAll(r.state)

LRUGetSnapshot(s) == [keyOrder |-> s.keyOrder]

\* One iteration of the forEach of applySnapshot, for the (1-based) index i.
ApplySnapshotStep(s, hashes, i) ==
  LET key == s.keyOrder[i]
      n == Len(s.nodes) + 1
      node == [key |-> key, prev |-> NoNode, next |-> NoNode]
      prevKey == IF i > 1 THEN s.keyOrder[i - 1] ELSE Undefined
  IN  IF key \notin hashes THEN s
      ELSE IF s.leastRecentlyUsed = NoNode /\ prevKey = Undefined
      THEN [s EXCEPT !.nodes = Append(@, node),
                     !.leastRecentlyUsed = n,
                     !.cacheKeyMap = MapSet(@, key, n)]
      ELSE
        LET prevNode == IF Has(s.cacheKeyMap, prevKey) THEN s.cacheKeyMap[prevKey] ELSE NoNode
            s1 == [s EXCEPT !.nodes = Append(@, node)]
            s2 == IF prevNode # NoNode
                  THEN [s1 EXCEPT !.nodes[n].prev = prevNode, !.nodes[prevNode].next = n]
                  ELSE s1
            s3 == [s2 EXCEPT !.cacheKeyMap = MapSet(@, key, n)]
        IN  IF i = Len(s.keyOrder) THEN [s3 EXCEPT !.mostRecentlyUsed = n] ELSE s3

RECURSIVE ApplySnapshotFrom(_, _, _)
ApplySnapshotFrom(s, hashes, i) ==
  IF i > Len(s.keyOrder) THEN s
  ELSE ApplySnapshotFrom(ApplySnapshotStep(s, hashes, i), hashes, i + 1)

LRUApplySnapshot(s, hashes, snapshot) ==
  ApplySnapshotFrom([s EXCEPT !.keyOrder = Within(snapshot.keyOrder, hashes)], hashes, 1)

LRUTtlExpired(s, hash) == LRUStopTracking(s, hash)

\* ---------------- MRU ----------------

MRUTrack(s, hash) ==
  IF Has(s.cacheKeyMap, hash) THEN s
  ELSE
    LET n  == Len(s.nodes) + 1
        mr == s.mostRecentlyUsed
        linked == IF mr # NoNode THEN [s.nodes EXCEPT ![mr].next = n] ELSE s.nodes
        node == [key |-> hash, prev |-> mr, next |-> NoNode]
    IN  [s EXCEPT !.nodes = Append(linked, node),
                  !.mostRecentlyUsed = n,
                  !.leastRecentlyUsed = IF @ = NoNode THEN n ELSE @,
                  !.cacheKeyMap = MapSet(@, hash, n),
                  !.keyOrder = Append(@, hash)]

MRUStopTracking(s, hash) ==
  IF ~Has(s.cacheKeyMap, hash) THEN s
  ELSE
    LET n  == s.cacheKeyMap[hash]
        s4 == Unlink(s, n)
        s5 == ClearTTL([s4 EXCEPT !.cacheKeyMap = MapDel(@, hash)], s4.nodes[n].key)
        index == IndexOf(s5.keyOrder, hash)
    IN  IF index # 0 THEN [s5 EXCEPT !.keyOrder = Splice(@, index)] ELSE s5

\* keyOrder[i] = v for a 1-based i that may be one past the end of the array.
ArraySet(seq, i, v) ==
  IF i <= Len(seq) THEN [seq EXCEPT ![i] = v] ELSE Append(seq, v)

\* keyOrder[i] read with a 1-based i; past the end the read yields undefined.
ArrayGet(seq, i) == IF i \in 1..Len(seq) THEN seq[i] ELSE Undefined

MRUHit(s, hash) ==
  IF Has(s.cacheKeyMap, hash)
     /\ s.nodes[s.cacheKeyMap[hash]].key # KeyOf(s, s.mostRecentlyUsed)
  THEN
    LET n  == s.cacheKeyMap[hash]
        s5 == MoveToMostRecent(s, n)
        index == IndexOf(s5.keyOrder, s5.nodes[n].key)
        swap == ArrayGet(s5.keyOrder, index)
    IN  IF Len(s5.keyOrder) > 1 /\ swap # Undefined
        THEN [s5 EXCEPT !.keyOrder =
                ArraySet(ArraySet(@, index, ArrayGet(@, index + 1)), index + 1, swap)]
        ELSE s5
  ELSE s

MRUEvict(s) ==
  IF s.mostRecentlyUsed = NoNode THEN [hash |-> Null, state |-> s]
  ELSE
    LET hashToEvict == s.nodes[s.mostRecentlyUsed].key
        newMostRecentlyUsedNode == s.nodes[s.mostRecentlyUsed].next
        s1 == ClearTTL(s, hashToEvict)
        s2 == [s1 EXCEPT !.cacheKeyMap = MapDel(@, hashToEvict),
                         !.keyOrder = Without(@, hashToEvict)]
        s3 == IF newMostRecentlyUsedNode # NoNode
              THEN [s2 EXCEPT !.nodes[newMostRecentlyUsedNode].prev = NoNode] ELSE s2
    IN  [hash |-> hashToEvict,
         state |-> [s3 EXCEPT !.mostRecentlyUsed = newMostRecentlyUsedNode]]

MRUGetSnapshot(s) == [keyOrder |-> s.keyOrder]

MRUApplySnapshot(s, hashes, snapshot) ==
  ApplySnapshotFrom([s EXCEPT !.keyOrder = Within(snapshot.keyOrder, hashes)], hashes, 1)

\* The ttlExpired listener registered by the MRUPolicy constructor.
MRUTtlExpired(s, hash) ==
  IF ~Has(s.cacheKeyMap, hash) THEN s ELSE Unlink(s, s.cacheKeyMap[hash])

\* ---------------- MFU ----------------

ListAt(s, hits) == IF Has(s.keyOrderMap, hits) THEN s.keyOrderMap[hits] ELSE << >>

MFUTrack(s, hash) ==
  LET s1 == IF ~Has(s.keyOrderMap, 0) THEN [s EXCEPT !.keyOrderMap = MapSet(@, 0, << >>)] ELSE s
  IN  IF Has(s1.cacheKeyMap, hash) THEN s1
      ELSE [s1 EXCEPT !.cacheKeyMap = MapSet(@, hash, 0),
                      !.keyOrderMap[0] = Append(@, hash)]

MFUStopTracking(s, hash) ==
  LET hits  == IF Has(s.cacheKeyMap, hash) THEN s.cacheKeyMap[hash] ELSE -1
      index == IndexOf(ListAt(s, hits), hash)
  IN  IF index = 0 THEN s
      ELSE
        LET s1 == ClearTTL([s EXCEPT !.cacheKeyMap = MapDel(@, hash),
                                     !.keyOrderMap[hits] = Splice(@, index)], hash)
        IN  IF Len(s1.keyOrderMap[hits]) = 0
            THEN LET s2 == [s1 EXCEPT !.keyOrderMap = MapDel(@, hits)]
                 IN  IF s2.highestHitCount = hits
                     THEN [s2 EXCEPT !.highestHitCount = MaxOrZero(DOMAIN s2.keyOrderMap)]
                     ELSE s2
            ELSE s1

MFUHit(s, hash) ==
  LET hits  == IF Has(s.cacheKeyMap, hash) THEN s.cacheKeyMap[hash] ELSE -1
      index == IndexOf(ListAt(s, hits), hash)
      newHitCount == hits + 1
  IN  IF index = 0 THEN s
      ELSE
        LET s1 == IF ~Has(s.keyOrderMap, newHitCount)
                  THEN [s EXCEPT !.keyOrderMap = MapSet(@, newHitCount, << >>)] ELSE s
            s2 == IF s1.highestHitCount < newHitCount
                  THEN [s1 EXCEPT !.highestHitCount = newHitCount] ELSE s1
        IN  [s2 EXCEPT !.cacheKeyMap = MapSet(@, hash, newHitCount),
                       !.keyOrderMap[hits] = Splice(@, index),
                       !.keyOrderMap[newHitCount] = Append(@, hash)]

MFUEvict(s) ==
  LET list == ListAt(s, s.highestHitCount)
  IN  IF Len(list) = 0 THEN [hash |-> Null, state |-> s]
      ELSE
        LET hash == list[Len(list)]
            s1 == ClearTTL([s EXCEPT !.keyOrderMap[s.highestHitCount] = SubSeq(list, 1, Len(list) - 1),
                                     !.cacheKeyMap = MapDel(@, hash)], hash)
            s2 == IF Len(s1.keyOrderMap[s1.highestHitCount]) = 0
                  THEN LET d == [s1 EXCEPT !.keyOrderMap = MapDel(@, s1.highestHitCount)]
                       IN  [d EXCEPT !.highestHitCount = MaxOrZero(DOMAIN d.keyOrderMap)]
                  ELSE s1
        IN  [hash |-> hash, state |-> s2]

MFUGetSnapshot(s) == [keyOrderMap |-> s.keyOrderMap]

\* An applySnapshot that restores the keys of the snapshot whether or not
\* they are valid.
MFUApplySnapshotUnfiltered(s, hashes, snapshot) ==
  LET km == snapshot.keyOrderMap
      restored == UNION {Range(km[h]) : h \in DOMAIN km}
  IN  [s EXCEPT
        !.highestHitCount = MaxOrZero(DOMAIN km \cup {@}),
        !.keyOrderMap = [h \in (DOMAIN @) \cup (DOMAIN km) |->
                           IF Has(s.keyOrderMap, h) THEN s.keyOrderMap[h] ELSE km[h]],
        !.cacheKeyMap = [k \in (DOMAIN @) \cup restored |->
                           IF k \in restored
                           THEN MaxOrZero({h \in DOMAIN km : k \in Range(km[h])})
                           ELSE s.cacheKeyMap[k]]]

\* The for..of over keyOrderMap.entries(); a hash stands in one list of the
\* snapshot, so the iteration order of the entries does not matter.
MFUApplySnapshot(s, hashes, snapshot) ==
  LET km == snapshot.keyOrderMap
      valid(h) == Within(km[h], hashes)
      restored == UNION {Range(valid(h)) : h \in DOMAIN km}
  IN  [s EXCEPT
        !.highestHitCount = MaxOrZero(DOMAIN km \cup {@}),
        !.keyOrderMap = [h \in (DOMAIN @) \cup (DOMAIN km) |->
                           IF Has(s.keyOrderMap, h) THEN s.keyOrderMap[h] ELSE valid(h)],
        !.cacheKeyMap = [k \in (DOMAIN @) \cup restored |->
                           IF k \in restored
                           THEN MaxOrZero({h \in DOMAIN km : k \in Range(valid(h))})
                           ELSE s.cacheKeyMap[k]]]

MFUTtlExpired(s, hash) == MFUStopTracking(s, hash)

\* ---------------- FIFO ----------------

FIFOTrack(s, hash) ==
  IF hash \in s.hashes THEN s
  ELSE [s EXCEPT !.queue = Append(@, hash), !.hashes = @ \cup {hash}]

FIFOStopTracking(s, hash) ==
  LET index == IndexOf(s.queue, hash)
  IN  IF hash \notin s.hashes \/ index = 0 THEN s
      ELSE ClearTTL([s EXCEPT !.queue = Splice(@, index), !.hashes = @ \ {hash}], hash)

FIFOHit(s, hash) == s

\* An evict() that takes the key tracked last.
FIFOEvictNewest(s) ==
  IF Len(s.queue) = 0 THEN [hash |-> Null, state |-> s]
  ELSE LET hash == s.queue[Len(s.queue)]
       IN  [hash |-> hash,
            state |-> ClearTTL([s EXCEPT !.queue = SubSeq(@, 1, Len(@) - 1),
                                         !.hashes = @ \ {hash}], hash)]

FIFOEvict(s) ==
  IF Len(s.queue) = 0 THEN [hash |-> Null, state |-> s]
  ELSE LET hash == Head(s.queue)
       IN  [hash |-> hash,
            state |-> ClearTTL([s EXCEPT !.queue = Tail(@), !.hashes = @ \ {hash}], hash)]

FIFOGetSnapshot(s) == [queue |-> s.queue]

RECURSIVE FIFOApplyFrom(_, _, _, _)
FIFOApplyFrom(s, hashes, queue, i) ==
  IF i > Len(queue) THEN s
  ELSE FIFOApplyFrom(IF queue[i] \in hashes
                     THEN [s EXCEPT !.queue = Append(@, queue[i]), !.hashes = @ \cup {queue[i]}]
                     ELSE s,
                     hashes, queue, i + 1)

FIFOApplySnapshot(s, hashes, snapshot) == FIFOApplyFrom(s, hashes, snapshot.queue, 1)

FIFOTtlExpired(s, hash) == FIFOStopTracking(s, hash)

\* ---------------- LFU (policies/lfu.ts) ----------------
\* Symmetric to MFU with a cached lowestHitCount: hit increments the count,
\* evict removes the first key of the list at the lowest count.

LFUTrack(s, hash) ==
  IF Has(s.cacheKeyMap, hash) THEN s
  ELSE [s EXCEPT !.cacheKeyMap = MapSet(@, hash, 0),
                 !.keyOrderMap = MapSet(@, 0, Append(ListAt(s, 0), hash)),
                 !.lowestHitCount = 0]

\* Drops the emptied lists and recomputes the cached lowest count.
LFUNormalise(s) ==
  LET live == {h \in DOMAIN s.keyOrderMap : Len(s.keyOrderMap[h]) > 0}
  IN  [s EXCEPT !.keyOrderMap = [h \in live |-> s.keyOrderMap[h]],
                !.lowestHitCount = MinOrZero(live)]

LFUStopTracking(s, hash) ==
  IF ~Has(s.cacheKeyMap, hash) THEN s
  ELSE LET hits == s.cacheKeyMap[hash]
       IN  LFUNormalise(ClearTTL([s EXCEPT !.cacheKeyMap = MapDel(@, hash),
                                           !.keyOrderMap[hits] = Without(@, hash)], hash))

LFUHit(s, hash) ==
  IF ~Has(s.cacheKeyMap, hash) THEN s
  ELSE LET hits == s.cacheKeyMap[hash]
           moved == [h \in (DOMAIN s.keyOrderMap) \cup {hits + 1} |->
                       IF h = hits + 1 THEN Append(ListAt(s, h), hash)
                       ELSE Without(s.keyOrderMap[h], hash)]
       IN  LFUNormalise([s EXCEPT !.cacheKeyMap = MapSet(@, hash, hits + 1),
                                  !.keyOrderMap = moved])

LFUEvict(s) ==
  LET list == ListAt(s, s.lowestHitCount)
  IN  IF Len(list) = 0 THEN [hash |-> Null, state |-> s]
      ELSE [hash |-> Head(list), state |-> LFUStopTracking(s, Head(list))]

LFUGetSnapshot(s) == [keyOrderMap |-> s.keyOrderMap]

LFUApplySnapshot(s, hashes, snapshot) ==
  LET km == snapshot.keyOrderMap
      restored == UNION {Range(Within(km[h], hashes)) : h \in DOMAIN km}
  IN  LFUNormalise([s EXCEPT
        !.keyOrderMap = [h \in DOMAIN km |-> Within(km[h], hashes)],
        !.cacheKeyMap = [k \in restored |->
                           MaxOrZero({h \in DOMAIN km : k \in Range(km[h])})]])

LFUTtlExpired(s, hash) == LFUStopTracking(s, hash)

\* ---------------- RR (policies/rr.ts) ----------------
\* A set of keys (in insertion order); evict removes a random element,
\* selected here by the random number rnd.

RRTrack(s, hash) ==
  IF hash \in Range(s.cacheKeys) THEN s ELSE [s EXCEPT !.cacheKeys = Append(@, hash)]

RRStopTracking(s, hash) ==
  IF hash \notin Range(s.cacheKeys) THEN s
  ELSE ClearTTL([s EXCEPT !.cacheKeys = Without(@, hash)], hash)

RRHit(s, hash) == s

RREvict(s, rnd) ==
  IF Len(s.cacheKeys) = 0 THEN [hash |-> Null, state |-> s]
  ELSE LET hash == s.cacheKeys[(rnd % Len(s.cacheKeys)) + 1]
       IN  [hash |-> hash, state |-> RRStopTracking(s, hash)]

RRGetSnapshot(s) == [cacheKeys |-> s.cacheKeys]

RRApplySnapshot(s, hashes, snapshot) ==
  [s EXCEPT !.cacheKeys = Within(snapshot.cacheKeys, hashes)]

RRTtlExpired(s, hash) == RRStopTracking(s, hash)

\* ---------------- the uniform policy interface (BasePolicy) ----------------

Track(s, hash) ==
  CASE s.policy = "LRU"  -> LRUTrack(s, hash)
    [] s.policy = "MRU"  -> MRUTrack(s, hash)
    [] s.policy = "MFU"  -> MFUTrack(s, hash)
    [] s.policy = "FIFO" -> FIFOTrack(s, hash)
    [] s.policy = "LFU"  -> LFUTrack(s, hash)
    [] s.policy = "RR"   -> RRTrack(s, hash)

StopTracking(s, hash) ==
  CASE s.policy = "LRU"  -> LRUStopTracking(s, hash)
    [] s.policy = "MRU"  -> MRUStopTracking(s, hash)
    [] s.policy = "MFU"  -> MFUStopTracking(s, hash)
    [] s.policy = "FIFO" -> FIFOStopTracking(s, hash)
    [] s.policy = "LFU"  -> LFUStopTracking(s, hash)
    [] s.policy = "RR"   -> RRStopTracking(s, hash)

Hit(s, hash) ==
  CASE s.policy = "LRU"  -> LRUHit(s, hash)
    [] s.policy = "MRU"  -> MRUHit(s, hash)
    [] s.policy = "MFU"  -> MFUHit(s, hash)
    [] s.policy = "FIFO" -> FIFOHit(s, hash)
    [] s.policy = "LFU"  -> LFUHit(s, hash)
    [] s.policy = "RR"   -> RRHit(s, hash)

\* evict(): [hash, state]; rnd is the random number an RR policy draws.
Evict(s, rnd) ==
  CASE s.policy = "LRU"  -> LRUEvict(s)
    [] s.policy = "MRU"  -> MRUEvict(s)
    [] s.policy = "MFU"  -> MFUEvict(s)
    [] s.policy = "FIFO" -> FIFOEvict(s)
    [] s.policy = "LFU"  -> LFUEvict(s)
    [] s.policy = "RR"   -> RREvict(s, rnd)

GetSnapshot(s) ==
  CASE s.policy = "LRU"  -> LRUGetSnapshot(s)
    [] s.policy = "MRU"  -> MRUGetSnapshot(s)
    [] s.policy = "MFU"  -> MFUGetSnapshot(s)
    [] s.policy = "FIFO" -> FIFOGetSnapshot(s)
    [] s.policy = "LFU"  -> LFUGetSnapshot(s)
    [] s.policy = "RR"   -> RRGetSnapshot(s)

ApplySnapshot(s, hashes, snapshot) ==
  CASE s.policy = "LRU"  -> LRUApplySnapshot(s, hashes, snapshot)
    [] s.policy = "MRU"  -> MRUApplySnapshot(s, hashes, snapshot)
    [] s.policy = "MFU"  -> MFUApplySnapshot(s, hashes, snapshot)
    [] s.policy = "FIFO" -> FIFOApplySnapshot(s, hashes, snapshot)
    [] s.policy = "LFU"  -> LFUApplySnapshot(s, hashes, snapshot)
    [] s.policy = "RR"   -> RRApplySnapshot(s, hashes, snapshot)

\* The ttlExpired listener each policy constructor registers on itself.
PolicyTtlExpired(s, hash) ==
  CASE s.policy = "LRU"  -> LRUTtlExpired(s, hash)
    [] s.policy = "MRU"  -> MRUTtlExpired(s, hash)
    [] s.policy = "MFU"  -> MFUTtlExpired(s, hash)
    [] s.policy = "FIFO" -> FIFOTtlExpired(s, hash)
    [] s.policy = "LFU"  -> LFUTtlExpired(s, hash)
    [] s.policy = "RR"   -> RRTtlExpired(s, hash)

\* The keys a policy tracks: the keys track() recognises as already tracked.
TrackedKeys(s) ==
  CASE s.policy \in {"LRU", "MRU", "MFU", "LFU"} -> DOMAIN s.cacheKeyMap
    [] s.policy = "FIFO" -> s.hashes
    [] s.policy = "RR"   -> Range(s.cacheKeys)

\* The results of calling evict() until it returns null.
RECURSIVE EvictAll(_, _)
EvictAll(s, rnd) ==
  LET r == Evict(s, rnd)
  IN  IF r.hash = Null THEN << >> ELSE <<r.hash>> \o EvictAll(r.state, rnd)

\* ------------------------------------------------------------------------
\* Identifiers and hashes
\* ------------------------------------------------------------------------
\* The identifiers clients use (cache identifiers and invalidation identifiers).
Identifiers == {"a", "b", "c"}

\* objectHash(identifier): a digest per identifier, distinct identifiers
\* having distinct digests.
ObjectHash(identifier) ==
  CASE identifier = "a" -> "d1"
    [] identifier = "b" -> "d2"
    [] identifier = "c" -> "d3"

\* BasePolicy.generateHash
GenerateHash(identifier, isCacheHash) ==
  (IF isCacheHash THEN "c" ELSE "i") \o "." \o ObjectHash(identifier)

CacheHashes == {GenerateHash(i, TRUE) : i \in Identifiers}

\* ------------------------------------------------------------------------
\* State
\* ------------------------------------------------------------------------
VARIABLES
  pol,        \* the policy object exercised on its own (SpecPolicy)
  evicted,    \* the result of the last evict() call on pol
  recency,    \* the keys tracked on pol, least recently used (tracked or hit) first
  arrival,    \* the keys tracked on pol, in the order they were tracked
  hitCount,   \* hits recorded on pol per tracked key, since it was tracked
  rescheduled, \* whether registerTTL has replaced a scheduled timer of pol (SpecTimer)
  emitted,    \* the events the last clearTTL call on pol emitted
  \* MemoryDriver
  caches,         \* _caches: policy -> (hash -> Cache)
  policies,       \* _policies: policy -> policy object
  invalidations,  \* _invalidations: policy -> (invalidation hash -> Set of hashes)
  mutexes,        \* _mutexes: policy -> queue of the calls waiting for the Mutex, holder first
  config,         \* _config: [maxSize, evictFromOthers]
  calls,          \* the driver calls in flight: call slot -> activation record
  started,        \* the number of calls made so far
  expected,       \* per policy and stored key: the data last set and the gets since
  now,            \* Date.now()
  snapshotFile,   \* the content of the snapshot file
  bootTime,       \* Date.now() when the process of the driver started
  snapshotTimer,  \* the setInterval of _initSnapshots: armed, and the failed writes it logged
  \* FileSystemDriver
  fsFiles,             \* the cache files: policy -> (hash -> decoded Cache); a missing key is a missing file
  fsInvalidationFile,  \* invalidation-identifiers.dat: policy -> (invalidation hash -> Set of hashes)
  fsTtlFile,           \* ttl.dat: policy -> (hash -> expiry timestamp)
  fsLocks,             \* the file locks of proper-lockfile: path -> serial of the call that took it
  fsPolicies,          \* _policies: policy -> policy object
  fsMutexes,           \* _mutexes: policy -> queue of the calls waiting for the Mutex, holder first
  fsCalls,             \* the driver calls in flight: call slot -> activation record
  fsStarted            \* the number of calls made so far

policyVars == <<pol, evicted, recency, arrival, hitCount, rescheduled, emitted>>

driverVars == <<caches, policies, invalidations, mutexes, config, calls, started, expected, now, snapshotFile, bootTime,
               snapshotTimer>>

fsVars == <<fsFiles, fsInvalidationFile, fsTtlFile, fsLocks, fsPolicies, fsMutexes, fsCalls, fsStarted>>

vars == <<pol, evicted, recency, arrival, hitCount, rescheduled, emitted,
          caches, policies, invalidations, mutexes, config, calls, started, expected, now, snapshotFile, bootTime,
          snapshotTimer, fsFiles, fsInvalidationFile, fsTtlFile, fsLocks, fsPolicies, fsMutexes, fsCalls, fsStarted>>

\* ------------------------------------------------------------------------
\* The memory driver: construction
\* ------------------------------------------------------------------------
\* drivers.memory.maxSize, in bytes.
MaxSize == 1000

\* The call slots: the number of driver calls that can be in flight at once.
Procs == 1..2

\* The activation record of a call slot that holds no call.
IdleCall ==
  [ op |-> "none", pc |-> "idle", policy |-> "LRU", identifier |-> "a", hash |-> Null,
    force |-> FALSE, cache |-> << >>, currentCacheSize |-> 0, currentMaxSize |-> 0,
    hashToEvict |-> Null, remainingPolicies |-> << >>, identifiers |-> << >>,
    affectedCaches |-> [live |-> FALSE, members |-> {}],
    targets |-> {}, first |-> FALSE, returned |-> FALSE, result |-> "none", value |-> << >> ]

\* The fields of a MemoryDriver after its constructor ran, before init().
DriverConstructed ==
  /\ caches = [p \in PolicySet |-> EmptyMap]
  /\ policies = [p \in PolicySet |-> NewPolicy(p)]
  /\ invalidations = [p \in PolicySet |-> EmptyMap]
  /\ mutexes = [p \in PolicySet |-> << >>]
  /\ calls = [pr \in Procs |-> IdleCall]
  /\ started = 0
  /\ expected = [p \in PolicySet |-> EmptyMap]
  /\ now = 0
  /\ snapshotFile = << >>
  /\ bootTime = 0
  /\ snapshotTimer = [armed |-> TRUE, failures |-> 0]

\* The activation record of a call slot of the file-system driver that holds no
\* call; index is the decoded invalidation file a call works on.
FsIdleCall ==
  [ op |-> "none", pc |-> "idle", serial |-> 0, policy |-> "LRU", hash |-> Null,
    force |-> FALSE, cache |-> << >>, currentCacheSize |-> 0, currentMaxSize |-> 0,
    target |-> "LRU", remainingPolicies |-> << >>, index |-> EmptyMap, evictHash |-> Null,
    identifiers |-> << >>, invalidationHash |-> Null, affectedCaches |-> << >>,
    result |-> "none" ]

\* The fields and the files of a FileSystemDriver after init() on an empty
\* mount path: the invalidation file and the TTL file of every policy exist
\* and are empty, no cache file exists.
FileSystemInitialized ==
  /\ fsFiles = [p \in PolicySet |-> EmptyMap]
  /\ fsInvalidationFile = [p \in PolicySet |-> EmptyMap]
  /\ fsTtlFile = [p \in PolicySet |-> EmptyMap]
  /\ fsLocks = EmptyMap
  /\ fsPolicies = [p \in PolicySet |-> NewPolicy(p)]
  /\ fsMutexes = [p \in PolicySet |-> << >>]
  /\ fsCalls = [pr \in Procs |-> FsIdleCall]
  /\ fsStarted = 0

\* The kinds of policy exercised on their own.
UnitPolicies == {"LRU", "MRU", "MFU", "FIFO"}

\* Random numbers an RR eviction may draw.
Randoms == 0..1

PolicyInit ==
  /\ pol \in {NewPolicy(k) : k \in UnitPolicies}
  /\ evicted = "none"
  /\ recency = << >>
  /\ arrival = << >>
  /\ hitCount = EmptyMap
  /\ rescheduled = FALSE
  /\ emitted = << >>
  /\ DriverConstructed
  /\ FileSystemInitialized
  /\ config = [maxSize |-> MaxSize, evictFromOthers |-> FALSE]

\* policy.track(hash)
PTrack(hash) ==
  /\ Len(pol.nodes) < MaxNodes
  /\ pol' = Track(pol, hash)
  /\ recency' = IF hash \in Range(recency) THEN recency ELSE Append(recency, hash)
  /\ arrival' = IF hash \in Range(arrival) THEN arrival ELSE Append(arrival, hash)
  /\ hitCount' = IF Has(hitCount, hash) THEN hitCount ELSE MapSet(hitCount, hash, 0)
  /\ UNCHANGED <<evicted, rescheduled, emitted, driverVars, fsVars>>

\* policy.hit(hash)
PHit(hash) ==
  /\ Has(hitCount, hash) => hitCount[hash] < MaxHits
  /\ Len(pol.keyOrder) <= MaxNodes
  /\ pol' = Hit(pol, hash)
  /\ recency' = IF hash \in Range(recency) THEN Append(Without(recency, hash), hash) ELSE recency
  /\ hitCount' = IF Has(hitCount, hash) THEN [hitCount EXCEPT ![hash] = @ + 1] ELSE hitCount
  /\ UNCHANGED <<evicted, arrival, rescheduled, emitted, driverVars, fsVars>>

\* policy.stopTracking(hash)
PStopTracking(hash) ==
  /\ pol' = StopTracking(pol, hash)
  /\ recency' = Without(recency, hash)
  /\ arrival' = Without(arrival, hash)
  /\ hitCount' = MapDel(hitCount, hash)
  /\ UNCHANGED <<evicted, rescheduled, emitted, driverVars, fsVars>>

\* policy.evict()
PEvict(rnd) ==
  LET r == Evict(pol, rnd)
  IN  /\ pol' = r.state
      /\ evicted' = r.hash
      /\ recency' = Without(recency, r.hash)
      /\ arrival' = Without(arrival, r.hash)
      /\ hitCount' = MapDel(hitCount, r.hash)
      /\ UNCHANGED <<rescheduled, emitted, driverVars, fsVars>>

PolicyNext ==
  \/ \E hash \in CacheHashes : PTrack(hash)
  \/ \E hash \in CacheHashes : PHit(hash)
  \/ \E hash \in CacheHashes : PStopTracking(hash)
  \/ \E rnd \in Randoms : PEvict(rnd)

SpecPolicy == PolicyInit /\ [][PolicyNext]_vars

\* policy.registerTTL(hash, 1) on a tracked key, as generateCache calls it.
PRegisterTTL(hash, ttl) ==
  /\ hash \in TrackedKeys(pol)
  /\ pol' = RegisterTTL(pol, hash, ttl, now)
  /\ UNCHANGED <<evicted, recency, arrival, hitCount, rescheduled, emitted, driverVars, fsVars>>

\* policy.registerTTL(hash, ttl) on a key that has no timer.
PScheduleTTL(hash, ttl) == ~Has(pol.ttlMap, hash) /\ PRegisterTTL(hash, ttl)

\* policy.registerTTL(hash, ttl) on a key whose timer is still scheduled.
PRescheduleTTL(hash, ttl) ==
  /\ hash \in TrackedKeys(pol)
  /\ Has(pol.ttlMap, hash)
  /\ pol' = RegisterTTL(pol, hash, ttl, now)
  /\ rescheduled' = TRUE
  /\ UNCHANGED <<evicted, recency, arrival, hitCount, emitted, driverVars, fsVars>>

\* The TTL timer of the key fires: the timer leaves the TTL table and the
\* ttlExpired subscriber of the policy runs.
PTtlExpired(hash) ==
  /\ TimeoutsOf(pol, hash) # {}
  /\ pol' = PolicyTtlExpired(TimerElapsed(pol, hash), hash)
  /\ recency' = Without(recency, hash)
  /\ arrival' = Without(arrival, hash)
  /\ hitCount' = MapDel(hitCount, hash)
  /\ UNCHANGED <<evicted, rescheduled, emitted, driverVars, fsVars>>

\* The keys of the caches "a" and "b".
TtlHashes == {GenerateHash("a", TRUE), GenerateHash("b", TRUE)}

\* A policy whose keys carry TTL timers.
PolicyTtlNext ==
  \/ \E hash \in TtlHashes : PTrack(hash)
  \/ \E hash \in TtlHashes : PHit(hash)
  \/ \E hash \in TtlHashes : PStopTracking(hash)
  \/ \E rnd \in Randoms : PEvict(rnd)
  \/ \E hash \in TtlHashes : PRegisterTTL(hash, 1)
  \/ \E hash \in TtlHashes : PTtlExpired(hash)

SpecPolicyTtl == PolicyInit /\ [][PolicyTtlNext]_vars

\* The delays registerTTL is called with.
Ttls == {1, 2}

\* A policy whose keys get their TTL timers registered over and over.
TimerNext ==
  \/ \E hash \in TtlHashes : PTrack(hash)
  \/ \E hash \in TtlHashes : PStopTracking(hash)
  \/ \E rnd \in Randoms : PEvict(rnd)
  \/ \E hash \in TtlHashes, ttl \in Ttls : PScheduleTTL(hash, ttl)
  \/ \E hash \in TtlHashes, ttl \in Ttls : PRescheduleTTL(hash, ttl)
  \/ \E hash \in TtlHashes : PTtlExpired(hash)

SpecTimer == PolicyInit /\ [][TimerNext]_vars

\* policy.clearTTL(hash), on any key.
PClearTTL(hash) ==
  /\ pol' = ClearTTL(pol, hash)
  /\ emitted' = ClearTTLEvents(pol, hash)
  /\ UNCHANGED <<evicted, recency, arrival, hitCount, rescheduled, driverVars, fsVars>>

\* A policy whose TTL timers are registered, cleared and left to fire.
ClearTtlNext ==
  \/ \E hash \in TtlHashes : PTrack(hash)
  \/ \E hash \in TtlHashes : PStopTracking(hash)
  \/ \E hash \in TtlHashes, ttl \in Ttls : PRegisterTTL(hash, ttl)
  \/ \E hash \in TtlHashes : PClearTTL(hash)
  \/ \E hash \in TtlHashes : PTtlExpired(hash)

SpecClearTtl == PolicyInit /\ [][ClearTtlNext]_vars

\* An LRU policy on its own.
LRUInit == PolicyInit /\ pol = NewPolicy("LRU")

SpecLRU == LRUInit /\ [][PolicyNext]_vars

\* A FIFO policy on its own.
FIFOInit == PolicyInit /\ pol = NewPolicy("FIFO")

SpecFIFO == FIFOInit /\ [][PolicyNext]_vars

\* getSnapshot() of the policy applied to a freshly constructed policy of the
\* same kind, the keys in validHashes being the valid ones.
Restored(s, validHashes) == ApplySnapshot(NewPolicy(s.policy), validHashes, GetSnapshot(s))

\* A restart of the owner of the policy: the state is dumped and a new policy
\* object is built from the dump.
PRestore(validHashes) ==
  /\ pol' = Restored(pol, validHashes)
  /\ recency' = Within(recency, validHashes)
  /\ arrival' = Within(arrival, validHashes)
  /\ hitCount' = [k \in (DOMAIN hitCount) \cap validHashes |-> hitCount[k]]
  /\ UNCHANGED <<evicted, rescheduled, emitted, driverVars, fsVars>>

PolicySnapNext ==
  \/ PolicyNext
  \/ \E validHashes \in SUBSET CacheHashes : PRestore(validHashes)

SpecPolicySnap == PolicyInit /\ [][PolicySnapNext]_vars

\* A policy that is filled, hit and restored from its dump, with any set of
\* valid keys.
SnapshotNext ==
  \/ \E hash \in CacheHashes : PTrack(hash)
  \/ \E hash \in CacheHashes : PHit(hash)
  \/ \E validHashes \in SUBSET CacheHashes : PRestore(validHashes)

SpecSnapshot == PolicyInit /\ [][SnapshotNext]_vars

\* ------------------------------------------------------------------------
\* Properties of the policies
\* ------------------------------------------------------------------------
Reverse(seq) == [i \in 1..Len(seq) |-> seq[Len(seq) + 1 - i]]

\* C7: MRU policy: evict() returns the most recently used key (tracked or hit
\* last) and leaves the others tracked with the second-most-recent key as the
\* new most recently used one; repeated evict() returns every tracked key
\* exactly once, most recent first, before it returns null.
C7_MRUEvictsMostRecentFirst ==
  pol.policy = "MRU" => EvictAll(pol, 0) = Reverse(recency)

\* The key an MFU eviction has to choose: among the keys with the highest hit
\* count, the one that reached that count last.
MostFrequent ==
  LET top == MaxOrZero({hitCount[k] : k \in DOMAIN hitCount})
      ties == SelectSeq(recency, LAMBDA k : hitCount[k] = top)
  IN  IF Len(ties) = 0 THEN Null ELSE ties[Len(ties)]

\* C8: MFU policy: evict() on a policy tracking at least one key returns a
\* tracked key with the highest hit count (the last key of the list for that
\* count); it returns null only when no key is tracked.
C8_MFUEvictsMostFrequent ==
  pol.policy = "MFU" => Evict(pol, 0).hash = MostFrequent

\* C9: for every policy and reachable policy state, getSnapshot() applied to a
\* fresh policy with all tracked keys valid restores an equivalent policy:
\* same tracked keys, same exported ordering and hit counts, same sequence of
\* evict() results.
C9_SnapshotRoundTrip ==
  LET r == Restored(pol, TrackedKeys(pol))
  IN  /\ TrackedKeys(r) = TrackedKeys(pol)
      /\ GetSnapshot(r) = GetSnapshot(pol)
      /\ EvictAll(r, 0) = EvictAll(pol, 0)

\* ------------------------------------------------------------------------
\* The memory driver: entries, sizes, the mutexes
\* ------------------------------------------------------------------------
\* An optional object: << >> is undefined / null, <<x>> is the object x.
None == << >>

Some(x) == <<x>>

\* generateCache with a hit counted at creation.
MergeCacheCountsCreation(identifier, timestamp, partialCache) ==
  [ identifier |-> identifier,
    hits       |-> 1,
    ctime      |-> timestamp,
    atime      |-> timestamp,
    data       |-> partialCache.data,
    options    |-> [ ttl |-> IF Has(partialCache.options, "ttl")
                             THEN partialCache.options["ttl"] ELSE 0,
                     invalidatedBy |-> IF Has(partialCache.options, "invalidatedBy")
                                       THEN partialCache.options["invalidatedBy"] ELSE << >> ] ]

\* lodash merge of the defaults of generateCache with the partial cache of the
\* caller; options is a partial object, a map over a subset of its keys.
MergeCache(identifier, timestamp, partialCache) ==
  [ identifier |-> identifier,
    hits       |-> 0,
    ctime      |-> timestamp,
    atime      |-> timestamp,
    data       |-> partialCache.data,
    options    |-> [ ttl |-> IF Has(partialCache.options, "ttl")
                             THEN partialCache.options["ttl"] ELSE 0,
                     invalidatedBy |-> IF Has(partialCache.options, "invalidatedBy")
                                       THEN partialCache.options["invalidatedBy"] ELSE << >> ] ]

\* BasePolicy.generateCache at clock value t: the cache and the policy, whose
\* TTL table has the timer of the new cache.
GenerateCache(s, identifier, partialCache, t) ==
  LET hash  == GenerateHash(identifier, TRUE)
      cache == MergeCache(identifier, t, partialCache)
  IN  [cache |-> cache,
       state |-> IF cache.options.ttl > 0 THEN RegisterTTL(s, hash, cache.options.ttl, t) ELSE s]

\* Buffer.byteLength(JSON.stringify(cache)): the payload carries the length
\* of the serialized entry.
ByteLength(cache) == cache.data.bytes

RECURSIVE SumBytes(_, _)
SumBytes(m, keys) ==
  IF keys = {} THEN 0
  ELSE LET k == CHOOSE x \in keys : TRUE
       IN  ByteLength(m[k]) + SumBytes(m, keys \ {k})

\* Buffer.byteLength(JSON.stringify([...cacheMap.values()])): the brackets,
\* the entries and the commas between them.
ArrayByteLength(cacheMap) ==
  LET n == Cardinality(DOMAIN cacheMap)
  IN  2 + SumBytes(cacheMap, DOMAIN cacheMap) + (IF n > 0 THEN n - 1 ELSE 0)

RECURSIVE SumArrays(_, _)
SumArrays(c, ps) ==
  IF ps = {} THEN 0
  ELSE LET p == CHOOSE x \in ps : TRUE
       IN  ArrayByteLength(c[p]) + SumArrays(c, ps \ {p})

\* MemoryDriver._getCurrentCacheSize
GetCurrentCacheSize(c) == SumArrays(c, PolicySet)

\* Mutex.runExclusive up to the acquire: the call queues for the mutex and
\* holds it when it is first in the queue.
Acquire(m, policy, pr) == [m EXCEPT ![policy] = Append(@, pr)]

Holds(policy, pr) == Len(mutexes[policy]) > 0 /\ Head(mutexes[policy]) = pr

\* A runExclusive that never hands the mutex on.
ReleaseNever(m, policy) == m

\* Mutex.runExclusive after the callback: the next call in the queue holds the mutex.
Release(m, policy) == [m EXCEPT ![policy] = Tail(@)]

\* The invalidation hashes of a cache.
InvalidationHashes(cache) ==
  {GenerateHash(cache.options.invalidatedBy[i], FALSE) : i \in 1..Len(cache.options.invalidatedBy)}

\* The forEach of set() and _initSnapshots() that registers the invalidation
\* identifiers of a cache.
RegisterInvalidationsSkipped(inv, cache, hash) == inv

RegisterInvalidations(inv, cache, hash) ==
  [h \in (DOMAIN inv) \cup InvalidationHashes(cache) |->
     IF h \in InvalidationHashes(cache)
     THEN (IF Has(inv, h) THEN inv[h] ELSE {}) \cup {hash}
     ELSE inv[h]]

\* The body of the else branch of the eviction loop: the evicted cache leaves
\* the table and the sets of its invalidation identifiers.
RemoveEvicted(d, policy, hash) ==
  LET invalidationIdentifiers ==
        IF Has(d.caches[policy], hash) THEN InvalidationHashes(d.caches[policy][hash]) ELSE {}
  IN  [d EXCEPT
        !.caches[policy] = MapDel(@, hash),
        !.invalidations[policy] =
           [h \in DOMAIN @ |-> IF h \in invalidationIdentifiers THEN @[h] \ {hash} ELSE @[h]]]

\* The while loop of _ensureCacheSizeLimit run on one policy inside its mutex;
\* d is [caches, policies, invalidations], hash the loop variable.
RECURSIVE EvictionLoop(_, _, _, _, _, _)
EvictionLoop(d, policy, currentCacheSize, currentMaxSize, hash, rnd) ==
  IF currentCacheSize > currentMaxSize
  THEN LET r == Evict(d.policies[policy], rnd)
           d1 == [d EXCEPT !.policies[policy] = r.state]
       IN  IF r.hash = Null THEN [d |-> d1, hash |-> Null]
           ELSE EvictionLoop(RemoveEvicted(d1, policy, r.hash), policy,
                             currentCacheSize, currentMaxSize, r.hash, rnd \div 2)
  ELSE [d |-> d, hash |-> hash]

\* The call returned to its caller: what the caller has is the result (the
\* cache of a get); the locals of the call are gone.
Finish(call, result) ==
  [IdleCall EXCEPT !.pc = "done", !.returned = TRUE, !.result = result, !.op = call.op,
                   !.policy = IF call.op = "get" THEN call.policy ELSE Null,
                   !.cache = IF call.op = "get" THEN call.cache ELSE << >>]

\* No call of the caller is running and none has yet to return to it.
Free(pr) == calls[pr].pc = "idle" \/ (calls[pr].pc = "done" /\ calls[pr].returned)

Quiescent == \A pr \in Procs : Free(pr)

\* ------------------------------------------------------------------------
\* MemoryDriver.set
\* ------------------------------------------------------------------------
Driver == [caches |-> caches, policies |-> policies, invalidations |-> invalidations]

\* What the callers expect of the keys still stored in table c: the keys that
\* left the table are forgotten.
StillStored(c) == [p \in PolicySet |-> [h \in (DOMAIN expected[p]) \cap (DOMAIN c[p]) |-> expected[p][h]]]

\* A size check that lets every cache pass.
ExceedsMaxSizeNever(cacheSize, cfg) == FALSE

\* The size check of _ensureCacheSizeLimit: the cache alone is bigger than
\* the memory available.
ExceedsMaxSize(cacheSize, cfg) == cacheSize > cfg.maxSize

\* A set() that calls generateCache before its exists check.
GeneratedBeforeExistsCheck(s, generated, skipped) == generated

\* The policy after the exists check and generateCache of set(): a call that
\* is skipped returns before generateCache.
GeneratedUnlessSkipped(s, generated, skipped) == IF skipped THEN s ELSE generated

\* set() up to its first await: the exists check, generateCache and the
\* synchronous part of _ensureCacheSizeLimit.
SetBegin(pr, identifier, policy, partialCache, force) ==
  LET hash == GenerateHash(identifier, TRUE)
      gen == GenerateCache(policies[policy], identifier, partialCache, now)
      cacheSize == ByteLength(gen.cache)
      currentCacheSize == GetCurrentCacheSize(caches)
      currentMaxSize == config.maxSize - cacheSize
      call == [IdleCall EXCEPT !.op = "set", !.policy = policy, !.identifier = identifier,
                               !.hash = hash, !.force = force, !.value = Some(partialCache)]
  IN  /\ Free(pr)
      /\ started < MaxCalls
      /\ started' = started + 1
      /\ Len(policies[policy].nodes) < MaxNodes
      /\ policies' = [policies EXCEPT ![policy] =
                        GeneratedUnlessSkipped(@, gen.state, Has(caches[policy], hash) /\ ~force)]
      /\ IF Has(caches[policy], hash) /\ ~force
         THEN /\ calls' = [calls EXCEPT ![pr] = Finish(call, "false")]
              /\ UNCHANGED mutexes
         ELSE /\ LET c == [call EXCEPT !.cache = Some(gen.cache),
                                       !.currentCacheSize = currentCacheSize,
                                       !.currentMaxSize = currentMaxSize]
                 IN  IF ExceedsMaxSize(cacheSize, config)
                     THEN /\ calls' = [calls EXCEPT ![pr] = Finish(c, "CacheTooBig")]
                          /\ UNCHANGED mutexes
                     ELSE IF currentCacheSize <= currentMaxSize
                     THEN /\ calls' = [calls EXCEPT ![pr] = [c EXCEPT !.pc = "admitted"]]
                          /\ UNCHANGED mutexes
                     ELSE /\ calls' = [calls EXCEPT ![pr] = [c EXCEPT !.pc = "evictTarget"]]
                          /\ mutexes' = Acquire(mutexes, policy, pr)
      /\ UNCHANGED <<caches, invalidations, config, now, snapshotFile, bootTime, policyVars, fsVars, snapshotTimer, expected>>

\* The callback of the first runExclusive of _ensureCacheSizeLimit.
SetEvictTarget(pr, rnd) ==
  LET call == calls[pr]
      r == EvictionLoop(Driver, call.policy, call.currentCacheSize, call.currentMaxSize, Null, rnd)
  IN  /\ call.pc = "evictTarget"
      /\ Holds(call.policy, pr)
      /\ caches' = r.d.caches
      /\ policies' = r.d.policies
      /\ invalidations' = r.d.invalidations
      /\ mutexes' = Release(mutexes, call.policy)
      /\ calls' = [calls EXCEPT ![pr] = [call EXCEPT !.pc = "afterTarget", !.hashToEvict = r.hash]]
      /\ expected' = StillStored(caches')
      /\ UNCHANGED <<config, now, snapshotFile, bootTime, policyVars, fsVars, snapshotTimer, started>>

\* A configuration read that always allows evicting from the other policies.
EvictFromOthersAlways(cfg) == TRUE

\* this._config.evictFromOthers as _ensureCacheSizeLimit reads it.
EvictFromOthers(cfg) == cfg.evictFromOthers

\* _ensureCacheSizeLimit after the target policy: done, the error, or the
\* first of the remaining policies.
SetAfterTarget(pr) ==
  LET call == calls[pr]
      remainingPolicies == SelectSeq(Policies, LAMBDA policyToCheck : policyToCheck # call.policy)
  IN  /\ call.pc = "afterTarget"
      /\ IF call.hashToEvict # Null
         THEN /\ calls' = [calls EXCEPT ![pr] = [call EXCEPT !.pc = "admitted"]]
              /\ UNCHANGED mutexes
         ELSE IF ~EvictFromOthers(config)
         THEN /\ calls' = [calls EXCEPT ![pr] = Finish(call, "NoCachesToEvict")]
              /\ UNCHANGED mutexes
         ELSE /\ calls' = [calls EXCEPT ![pr] = [call EXCEPT !.pc = "evictOther",
                                                    !.remainingPolicies = remainingPolicies]]
              /\ mutexes' = Acquire(mutexes, Head(remainingPolicies), pr)
      /\ UNCHANGED <<caches, policies, invalidations, config, now, snapshotFile, bootTime, policyVars, fsVars, snapshotTimer, started, expected>>

\* The callback of the runExclusive on a remaining policy.
SetEvictOther(pr, rnd) ==
  LET call == calls[pr]
      remainingPolicy == Head(call.remainingPolicies)
      r == EvictionLoop(Driver, remainingPolicy, call.currentCacheSize, call.currentMaxSize, Null, rnd)
  IN  /\ call.pc = "evictOther"
      /\ Holds(remainingPolicy, pr)
      /\ caches' = r.d.caches
      /\ policies' = r.d.policies
      /\ invalidations' = r.d.invalidations
      /\ mutexes' = Release(mutexes, remainingPolicy)
      /\ calls' = [calls EXCEPT ![pr] = [call EXCEPT !.pc = "afterOther", !.hashToEvict = r.hash]]
      /\ expected' = StillStored(caches')
      /\ UNCHANGED <<config, now, snapshotFile, bootTime, policyVars, fsVars, snapshotTimer, started>>

\* The rest of the body of the for loop over the remaining policies, and the
\* error after the loop.
SetAfterOther(pr) ==
  LET call == calls[pr]
      rest == Tail(call.remainingPolicies)
  IN  /\ call.pc = "afterOther"
      /\ IF call.hashToEvict # Null
         THEN /\ calls' = [calls EXCEPT ![pr] = [call EXCEPT !.pc = "admitted"]]
              /\ UNCHANGED mutexes
         ELSE IF rest = << >>
         THEN /\ calls' = [calls EXCEPT ![pr] = Finish(call, "NoCachesToEvict")]
              /\ UNCHANGED mutexes
         ELSE /\ calls' = [calls EXCEPT ![pr] = [call EXCEPT !.pc = "evictOther",
                                                    !.remainingPolicies = rest]]
              /\ mutexes' = Acquire(mutexes, Head(rest), pr)
      /\ UNCHANGED <<caches, policies, invalidations, config, now, snapshotFile, bootTime, policyVars, fsVars, snapshotTimer, started, expected>>

\* set() resumes after _ensureCacheSizeLimit and queues for the mutex.
SetAcquire(pr) ==
  LET call == calls[pr]
  IN  /\ call.pc = "admitted"
      /\ calls' = [calls EXCEPT ![pr] = [call EXCEPT !.pc = "store"]]
      /\ mutexes' = Acquire(mutexes, call.policy, pr)
      /\ UNCHANGED <<caches, policies, invalidations, config, now, snapshotFile, bootTime, policyVars, fsVars, snapshotTimer, started, expected>>

\* The callback of the runExclusive of set(), and the return of true.
SetStore(pr) ==
  LET call == calls[pr]
      policy == call.policy
      hash == call.hash
      cache == call.cache[1]
      stopped == IF call.force THEN StopTracking(policies[policy], hash) ELSE policies[policy]
  IN  /\ call.pc = "store"
      /\ Holds(policy, pr)
      /\ policies' = [policies EXCEPT ![policy] = Track(stopped, hash)]
      /\ caches' = [caches EXCEPT ![policy] = MapSet(@, hash, cache)]
      /\ invalidations' = [invalidations EXCEPT ![policy] = RegisterInvalidations(@, cache, hash)]
      /\ mutexes' = Release(mutexes, policy)
      /\ calls' = [calls EXCEPT ![pr] = Finish(call, "true")]
      /\ expected' = [expected EXCEPT ![policy] =
                       MapSet(@, hash, [data |-> call.value[1].data, gets |-> 0])]
      /\ UNCHANGED <<config, now, snapshotFile, bootTime, policyVars, fsVars, snapshotTimer, started>>

\* ------------------------------------------------------------------------
\* MemoryDriver.get
\* ------------------------------------------------------------------------
\* get() up to its await: the lookup outside the mutex.
GetBegin(pr, identifier, policy) ==
  LET hash == GenerateHash(identifier, TRUE)
      call == [IdleCall EXCEPT !.op = "get", !.policy = policy,
                               !.identifier = identifier, !.hash = hash]
  IN  /\ Free(pr)
      /\ started < MaxCalls
      /\ started' = started + 1
      /\ IF ~Has(caches[policy], hash)
         THEN /\ calls' = [calls EXCEPT ![pr] = Finish(call, "null")]
              /\ UNCHANGED mutexes
         ELSE /\ caches[policy][hash].hits < MaxHits
              /\ calls' = [calls EXCEPT ![pr] = [call EXCEPT !.pc = "hit",
                                                    !.cache = Some(caches[policy][hash])]]
              /\ mutexes' = Acquire(mutexes, policy, pr)
      /\ UNCHANGED <<caches, policies, invalidations, config, now, snapshotFile, bootTime, policyVars, fsVars, snapshotTimer, expected>>

\* The callback of the runExclusive of get(), and the return of the updated cache.
GetHit(pr) ==
  LET call == calls[pr]
      cache == call.cache[1]
      updated == [cache EXCEPT !.atime = now, !.hits = cache.hits + 1]
  IN  /\ call.pc = "hit"
      /\ Holds(call.policy, pr)
      /\ policies' = [policies EXCEPT ![call.policy] = Hit(@, call.hash)]
      /\ caches' = [caches EXCEPT ![call.policy] = MapSet(@, call.hash, updated)]
      /\ mutexes' = Release(mutexes, call.policy)
      /\ calls' = [calls EXCEPT ![pr] = Finish([call EXCEPT !.cache = Some(updated)], "cache")]
      /\ expected' = [expected EXCEPT ![call.policy] =
                       IF Has(@, call.hash) THEN [@ EXCEPT ![call.hash].gets = @ + 1] ELSE @]
      /\ UNCHANGED <<invalidations, config, now, snapshotFile, bootTime, policyVars, fsVars, snapshotTimer, started>>

\* ------------------------------------------------------------------------
\* MemoryDriver.invalidate
\* ------------------------------------------------------------------------
\* One iteration of the for loop up to its await: the lookup of the affected
\* caches. affectedCaches is a reference to the Set in the index.
InvalidateLookup(call, identifiers) ==
  IF identifiers = << >>
  THEN [call EXCEPT !.pc = "done", !.identifiers = << >>, !.hash = Null,
                    !.affectedCaches = IdleCall.affectedCaches]
  ELSE LET hash == GenerateHash(Head(identifiers), FALSE)
           affected == IF Has(invalidations[call.policy], hash)
                       THEN invalidations[call.policy][hash] ELSE {}
       IN  IF affected = {}
           THEN [call EXCEPT !.pc = "invalidateNext", !.identifiers = Tail(identifiers)]
           ELSE [call EXCEPT !.pc = "invalidateEvict", !.identifiers = identifiers,
                             !.hash = hash,
                             !.affectedCaches = [live |-> TRUE, members |-> affected]]

\* The keys of the policy whose invalidatedBy holds one of the identifiers.
Affected(identifiers, policy) ==
  {h \in DOMAIN caches[policy] :
     Range(caches[policy][h].options.invalidatedBy) \cap Range(identifiers) # {}}

\* invalidate() up to the first await of the detached span callback.
InvalidateBegin(pr, identifiers, policy) ==
  LET call == [IdleCall EXCEPT !.op = "invalidate", !.policy = policy, !.first = TRUE,
                               !.value = Some(identifiers),
                               !.targets = Affected(identifiers, policy)]
      c == InvalidateLookup(call, identifiers)
  IN  /\ Free(pr)
      /\ started < MaxCalls
      /\ started' = started + 1
      /\ calls' = [calls EXCEPT ![pr] = c]
      /\ mutexes' = IF c.pc = "invalidateEvict" THEN Acquire(mutexes, policy, pr) ELSE mutexes
      /\ UNCHANGED <<caches, policies, invalidations, config, now, snapshotFile, bootTime, policyVars, fsVars, snapshotTimer, expected>>

RECURSIVE StopTrackingAll(_, _)
StopTrackingAll(s, hashes) ==
  IF hashes = {} THEN s
  ELSE LET h == CHOOSE x \in hashes : TRUE
       IN  StopTrackingAll(StopTracking(s, h), hashes \ {h})

\* The Set an affectedCaches reference points to: the live Set of the index,
\* or the Set as it was when its key left the index.
Deref(call) ==
  IF call.affectedCaches.live /\ Has(invalidations[call.policy], call.hash)
  THEN invalidations[call.policy][call.hash]
  ELSE call.affectedCaches.members

\* The callback of the runExclusive of invalidate().
InvalidateEvict(pr) ==
  LET call == calls[pr]
      policy == call.policy
      affected == Deref(call)
  IN  /\ call.pc = "invalidateEvict"
      /\ Holds(policy, pr)
      /\ policies' = [policies EXCEPT ![policy] = StopTrackingAll(@, affected)]
      /\ caches' = [caches EXCEPT ![policy] = [h \in (DOMAIN @) \ affected |-> @[h]]]
      /\ invalidations' = [invalidations EXCEPT ![policy] = MapDel(@, call.hash)]
      /\ mutexes' = Release(mutexes, policy)
      /\ calls' = [calls EXCEPT ![pr] = [call EXCEPT !.pc = "invalidateNext", !.first = FALSE,
                                            !.identifiers = Tail(call.identifiers)]]
      /\ expected' = StillStored(caches')
      /\ UNCHANGED <<config, now, snapshotFile, bootTime, policyVars, fsVars, snapshotTimer, started>>

\* The for loop resumes with the next identifier, or the span callback ends.
InvalidateNext(pr) ==
  LET call == calls[pr]
      c == InvalidateLookup([call EXCEPT !.first = FALSE], call.identifiers)
  IN  /\ call.pc = "invalidateNext"
      /\ calls' = [calls EXCEPT ![pr] = c]
      /\ mutexes' = IF c.pc = "invalidateEvict" THEN Acquire(mutexes, call.policy, pr) ELSE mutexes
      /\ UNCHANGED <<caches, policies, invalidations, config, now, snapshotFile, bootTime, policyVars, fsVars, snapshotTimer, started, expected>>

\* The promise of invalidate() resolves when its body returns, which is when
\* the detached callback reaches its first await; the caller resumes one
\* microtask later, after a callback that got the mutex at once.
InvalidateReturn(pr) ==
  LET call == calls[pr]
  IN  /\ call.op = "invalidate"
      /\ call.pc # "idle"
      /\ ~call.returned
      /\ ~(call.first /\ call.pc = "invalidateEvict" /\ Holds(call.policy, pr))
      /\ calls' = [calls EXCEPT ![pr] = [call EXCEPT !.returned = TRUE]]
      /\ UNCHANGED <<caches, policies, invalidations, mutexes, config, now, snapshotFile, bootTime, policyVars, fsVars, snapshotTimer, started, expected>>

\* ------------------------------------------------------------------------
\* Timers and the clock
\* ------------------------------------------------------------------------
MaxTime == 2

DueTimers == {<<p, h>> \in PolicySet \X CacheHashes :
                \E timeout \in TimeoutsOf(policies[p], h) : timeout.at <= now}

\* A timer of registerTTL fires: the timer leaves the table, then the
\* ttlExpired listeners run in the order they were registered, the one of the
\* policy's constructor before the one of MemoryDriver.init.
TimerFire(policy, hash) ==
  /\ Quiescent
  /\ <<policy, hash>> \in DueTimers
  /\ policies' = [policies EXCEPT ![policy] = PolicyTtlExpired(TimerElapsed(@, hash), hash)]
  /\ caches' = [caches EXCEPT ![policy] = MapDel(@, hash)]
  /\ expected' = StillStored(caches')
  /\ UNCHANGED <<invalidations, mutexes, config, calls, started, now, snapshotFile, bootTime, policyVars, fsVars, snapshotTimer>>

\* A millisecond passes; timers that are due fire before later events.
Tick ==
  /\ Quiescent
  /\ DueTimers = {}
  /\ now < MaxTime
  /\ now' = now + 1
  /\ UNCHANGED <<caches, policies, invalidations, mutexes, config, calls, snapshotFile, bootTime, policyVars, fsVars, snapshotTimer, started, expected>>

\* ------------------------------------------------------------------------
\* Snapshots and recovery
\* ------------------------------------------------------------------------
\* decode(encode(array)): undefined is written as nil and read back as null.
Msgpack(array) == [i \in 1..Len(array) |-> IF array[i] = Undefined THEN Null ELSE array[i]]

\* decode(encode(getSnapshot())) of a policy: Maps and Sets come back as
\* they were, arrays through Msgpack.
DecodedSnapshot(s) ==
  CASE s.policy \in {"LRU", "MRU"} -> [keyOrder |-> Msgpack(GetSnapshot(s).keyOrder)]
    [] s.policy = "FIFO" -> [queue |-> Msgpack(GetSnapshot(s).queue)]
    [] OTHER -> GetSnapshot(s)

\* The callback of the setInterval of _initSnapshots: the caches and the
\* snapshots of the policies are written to the snapshot file.
Snapshot ==
  /\ Quiescent
  /\ snapshotTimer.armed
  /\ snapshotFile' = Some([caches   |-> caches,
                           policies |-> [p \in PolicySet |-> DecodedSnapshot(policies[p])]])
  /\ UNCHANGED <<caches, policies, invalidations, mutexes, config, calls, started, expected,
                 now, bootTime, policyVars, fsVars, snapshotTimer>>

\* The failed snapshot writes of one run.
MaxFailures == 2

\* A snapshot timer that a failed write stops.
IntervalClearedOnError(armed) == FALSE

\* The interval after the catch block of its callback: the error is logged
\* and nothing clears the timer.
IntervalAfterError(armed) == armed

\* The callback of the setInterval of _initSnapshots when fse.writeFile
\* rejects: the catch block logs the error. The file is as it was (the open
\* failed) or without a readable snapshot (the write broke off).
SnapshotFails ==
  /\ Quiescent
  /\ snapshotTimer.armed
  /\ snapshotTimer.failures < MaxFailures
  /\ snapshotTimer' = [armed |-> IntervalAfterError(snapshotTimer.armed),
                       failures |-> snapshotTimer.failures + 1]
  /\ snapshotFile' \in {snapshotFile, << >>}
  /\ UNCHANGED <<caches, policies, invalidations, mutexes, config, calls, started, expected,
                 now, bootTime, policyVars, fsVars>>

\* A recovery that also drops the entries whose TTL ends at the time of the
\* recovery.
TtlOverOrDue(cache, t) == cache.options.ttl # 0 /\ t >= cache.ctime + cache.options.ttl

\* The TTL check of _initSnapshots at clock value t: the TTL of the cache of
\* the snapshot is over.
TtlOver(cache, t) == cache.options.ttl # 0 /\ t > cache.ctime + cache.options.ttl

\* The body of the loop of _initSnapshots over the hashes of one policy, on
\* the hashes not yet visited: d is [caches, policies, invalidations, valid].
RECURSIVE Recover(_, _, _, _)
Recover(d, policy, snapshotCaches, hashes) ==
  IF hashes = {} THEN d
  ELSE
    LET hash == CHOOSE h \in hashes : TRUE
        cache == snapshotCaches[hash]
        d1 == IF TtlOver(cache, now)
              THEN d
              ELSE [d EXCEPT
                     !.caches[policy] = MapSet(@, hash, cache),
                     !.valid = @ \cup {hash},
                     !.policies[policy] =
                        IF cache.options.ttl # 0
                        THEN RegisterTTL(@, hash, cache.options.ttl, now) ELSE @,
                     !.invalidations[policy] = RegisterInvalidations(@, cache, hash)]
    IN  Recover(d1, policy, snapshotCaches, hashes \ {hash})

\* The for..in of _initSnapshots over the policies of the snapshot.
RECURSIVE RecoverPolicies(_, _, _)
RecoverPolicies(d, snapshot, ps) ==
  IF ps = {} THEN d
  ELSE
    LET policy == CHOOSE p \in ps : TRUE
        r == Recover([d EXCEPT !.valid = {}], policy, snapshot.caches[policy],
                     DOMAIN snapshot.caches[policy])
        applied == [r EXCEPT !.policies[policy] =
                      ApplySnapshot(@, r.valid, snapshot.policies[policy])]
    IN  RecoverPolicies(applied, snapshot, ps \ {policy})

\* The process stops and starts again: a new MemoryDriver is constructed and
\* init() runs _initSnapshots on the snapshot file.
Restart ==
  LET fresh == [caches        |-> [p \in PolicySet |-> EmptyMap],
                policies      |-> [p \in PolicySet |-> NewPolicy(p)],
                invalidations |-> [p \in PolicySet |-> EmptyMap],
                valid         |-> {}]
      d == IF snapshotFile = << >> THEN fresh
           ELSE RecoverPolicies(fresh, snapshotFile[1], PolicySet)
  IN  /\ Quiescent
      /\ bootTime < now
      /\ caches' = d.caches
      /\ policies' = d.policies
      /\ invalidations' = d.invalidations
      /\ mutexes' = [p \in PolicySet |-> << >>]
      /\ calls' = [pr \in Procs |-> IdleCall]
      /\ bootTime' = now
      /\ expected' = StillStored(caches')
      /\ UNCHANGED <<config, started, now, snapshotFile, policyVars, fsVars, snapshotTimer>>

\* ------------------------------------------------------------------------
\* The driver under its callers
\* ------------------------------------------------------------------------
\* The policies the callers use.
DriverPolicies == {"LRU", "MRU"}

\* The identifiers of the caches of the callers.
CacheIdentifiers == {"a", "b"}

\* The payloads of the callers, with the length of the entry that carries them.
Payloads == {[value |-> "x", bytes |-> 400], [value |-> "y", bytes |-> 600]}

\* The options of the callers: a partial object.
OptionsSet ==
  { EmptyMap,
    "ttl" :> 2,
    ("ttl" :> 1) @@ ("invalidatedBy" :> <<"b">>) }

PartialCaches == {[data |-> d, options |-> o] : d \in Payloads, o \in OptionsSet}

\* The identifier lists of the invalidate calls.
InvalidateLists == {<<"b">>, <<"a", "b">>}

\* MemoryDriver after init() without a snapshot on disk.
DriverInit ==
  /\ DriverConstructed
  /\ FileSystemInitialized
  /\ config \in [maxSize : {MaxSize}, evictFromOthers : BOOLEAN]
  /\ pol = NewPolicy("LRU")
  /\ evicted = << >>
  /\ recency = << >>
  /\ arrival = << >>
  /\ hitCount = EmptyMap
  /\ rescheduled = FALSE
  /\ emitted = << >>

\* The steps of the calls of caller pr.
CallStep(pr) ==
  \/ \E identifier \in CacheIdentifiers, policy \in DriverPolicies,
        partialCache \in PartialCaches, force \in BOOLEAN :
       SetBegin(pr, identifier, policy, partialCache, force)
  \/ \E rnd \in Randoms : SetEvictTarget(pr, rnd)
  \/ SetAfterTarget(pr)
  \/ \E rnd \in Randoms : SetEvictOther(pr, rnd)
  \/ SetAfterOther(pr)
  \/ SetAcquire(pr)
  \/ SetStore(pr)
  \/ \E identifier \in CacheIdentifiers, policy \in DriverPolicies : GetBegin(pr, identifier, policy)
  \/ GetHit(pr)
  \/ \E identifiers \in InvalidateLists, policy \in DriverPolicies :
       InvalidateBegin(pr, identifiers, policy)
  \/ InvalidateEvict(pr)
  \/ InvalidateNext(pr)
  \/ InvalidateReturn(pr)

\* One caller that awaits each call before the next, timers and the clock.
SeqNext ==
  \/ CallStep(1)
  \/ \E policy \in DriverPolicies, hash \in CacheHashes : TimerFire(policy, hash)
  \/ Tick

SpecSeq == DriverInit /\ [][SeqNext]_vars

\* The caches of a caller that sets and reads back: two payloads, with and
\* without the options.
ReadBackCaches ==
  {[data |-> d, options |-> o] :
     d \in Payloads, o \in {EmptyMap, ("ttl" :> 1) @@ ("invalidatedBy" :> <<"b">>)}}

\* One caller that sets one identifier in the policies, reads it back and
\* invalidates, timers and the clock.
ReadBackNext ==
  \/ \E policy \in DriverPolicies, partialCache \in ReadBackCaches, force \in BOOLEAN :
       SetBegin(1, "a", policy, partialCache, force)
  \/ \E rnd \in Randoms : SetEvictTarget(1, rnd)
  \/ SetAfterTarget(1)
  \/ \E rnd \in Randoms : SetEvictOther(1, rnd)
  \/ SetAfterOther(1)
  \/ SetAcquire(1)
  \/ SetStore(1)
  \/ \E policy \in DriverPolicies : GetBegin(1, "a", policy)
  \/ GetHit(1)
  \/ \E identifiers \in InvalidateLists, policy \in DriverPolicies :
       InvalidateBegin(1, identifiers, policy)
  \/ InvalidateEvict(1)
  \/ InvalidateNext(1)
  \/ InvalidateReturn(1)
  \/ \E policy \in DriverPolicies, hash \in CacheHashes : TimerFire(policy, hash)
  \/ Tick

SpecReadBack == DriverInit /\ [][ReadBackNext]_vars

\* The caches of the callers of a driver that recovers: all with a TTL.
TtlCaches ==
  {[data |-> [value |-> "x", bytes |-> 400], options |-> o] :
     o \in {"ttl" :> 2, ("ttl" :> 1) @@ ("invalidatedBy" :> <<"b">>)}}

\* One caller that sets, timers, the clock, snapshots and restarts of the
\* process.
RecoverNext ==
  \/ \E identifier \in CacheIdentifiers, policy \in DriverPolicies, partialCache \in TtlCaches :
       SetBegin(1, identifier, policy, partialCache, FALSE)
  \/ \E rnd \in Randoms : SetEvictTarget(1, rnd)
  \/ SetAfterTarget(1)
  \/ \E rnd \in Randoms : SetEvictOther(1, rnd)
  \/ SetAfterOther(1)
  \/ SetAcquire(1)
  \/ SetStore(1)
  \/ \E policy \in DriverPolicies, hash \in CacheHashes : TimerFire(policy, hash)
  \/ Tick
  \/ Snapshot
  \/ Restart

SpecRecover == DriverInit /\ [][RecoverNext]_vars

\* The caches of the callers of a driver that is restarted: small entries,
\* with and without a TTL.
RestoreCaches ==
  {[data |-> [value |-> "x", bytes |-> 100], options |-> o] : o \in {EmptyMap, "ttl" :> 1}}

\* MemoryDriver after init() without a snapshot on disk, evictFromOthers off.
RestoreInit ==
  /\ DriverInit
  /\ ~config.evictFromOthers

\* One caller that sets entries that fit without evictions, two keys in MRU
\* and one in LRU, timers, the clock, snapshots and restarts of the process.
RestoreNext ==
  \/ \E identifier \in CacheIdentifiers, partialCache \in RestoreCaches :
       SetBegin(1, identifier, "MRU", partialCache, FALSE)
  \/ \E partialCache \in RestoreCaches : SetBegin(1, "a", "LRU", partialCache, FALSE)
  \/ SetAcquire(1)
  \/ SetStore(1)
  \/ \E policy \in DriverPolicies, hash \in CacheHashes : TimerFire(policy, hash)
  \/ Tick
  \/ Snapshot
  \/ Restart

SpecRestore == RestoreInit /\ [][RestoreNext]_vars

\* The caches of the callers of a driver that is restarted and invalidated:
\* small entries invalidated by "b", with and without a TTL.
ReindexCaches ==
  {[data |-> [value |-> "x", bytes |-> 100], options |-> o] :
     o \in {"invalidatedBy" :> <<"b">>, ("invalidatedBy" :> <<"b">>) @@ ("ttl" :> 1)}}

\* One caller that sets entries in the LRU policy and invalidates them,
\* timers, the clock, snapshots and restarts of the process.
ReindexNext ==
  \/ \E identifier \in CacheIdentifiers, partialCache \in ReindexCaches :
       SetBegin(1, identifier, "LRU", partialCache, FALSE)
  \/ SetAcquire(1)
  \/ SetStore(1)
  \/ InvalidateBegin(1, <<"b">>, "LRU")
  \/ InvalidateEvict(1)
  \/ InvalidateNext(1)
  \/ InvalidateReturn(1)
  \/ \E hash \in CacheHashes : TimerFire("LRU", hash)
  \/ Tick
  \/ Snapshot
  \/ Restart

SpecReindex == RestoreInit /\ [][ReindexNext]_vars

\* The caches of a caller with entries bigger than maxSize: with and without
\* a TTL.
OversizedCaches ==
  {[data |-> [value |-> "z", bytes |-> MaxSize + 200], options |-> o] : o \in {EmptyMap, "ttl" :> 1}}

\* One caller that sets one identifier in the policies, with entries that fit
\* and entries bigger than maxSize, timers and the clock.
OversizedNext ==
  \/ \E policy \in DriverPolicies, partialCache \in ReadBackCaches \cup OversizedCaches,
        force \in BOOLEAN :
       SetBegin(1, "a", policy, partialCache, force)
  \/ \E rnd \in Randoms : SetEvictTarget(1, rnd)
  \/ SetAfterTarget(1)
  \/ \E rnd \in Randoms : SetEvictOther(1, rnd)
  \/ SetAfterOther(1)
  \/ SetAcquire(1)
  \/ SetStore(1)
  \/ \E policy \in DriverPolicies, hash \in CacheHashes : TimerFire(policy, hash)
  \/ Tick

SpecOversized == DriverInit /\ [][OversizedNext]_vars

\* The caches of the callers whose calls run concurrently: no options.
PlainCaches == {[data |-> d, options |-> EmptyMap] : d \in Payloads}

\* The steps of the set and get calls of caller pr.
SetGetStep(pr) ==
  \/ \E identifier \in CacheIdentifiers, policy \in DriverPolicies,
        partialCache \in PlainCaches, force \in BOOLEAN :
       SetBegin(pr, identifier, policy, partialCache, force)
  \/ \E rnd \in Randoms : SetEvictTarget(pr, rnd)
  \/ SetAfterTarget(pr)
  \/ \E rnd \in Randoms : SetEvictOther(pr, rnd)
  \/ SetAfterOther(pr)
  \/ SetAcquire(pr)
  \/ SetStore(pr)
  \/ \E identifier \in CacheIdentifiers, policy \in DriverPolicies : GetBegin(pr, identifier, policy)
  \/ GetHit(pr)

\* Callers whose calls run concurrently.
Next == \E pr \in Procs : SetGetStep(pr)

Spec == DriverInit /\ [][Next]_vars

\* One caller that sets and reads small caches while the snapshot interval
\* fires between the calls, its write succeeding or failing.
PeriodicNext ==
  \/ \E identifier \in CacheIdentifiers, partialCache \in RestoreCaches, force \in BOOLEAN :
       SetBegin(1, identifier, "LRU", partialCache, force)
  \/ SetAcquire(1)
  \/ SetStore(1)
  \/ \E identifier \in CacheIdentifiers : GetBegin(1, identifier, "LRU")
  \/ GetHit(1)
  \/ Snapshot
  \/ SnapshotFails

SpecPeriodic == RestoreInit /\ [][PeriodicNext]_vars

\* The caches of concurrent callers that overflow the budget: two of them do
\* not fit together.
OverflowCaches ==
  {[data |-> [value |-> "y", bytes |-> 600], options |-> "invalidatedBy" :> <<"b">>]}

\* A caller makes a call.
OverflowBegin(pr) ==
  \/ \E policy \in DriverPolicies, partialCache \in OverflowCaches, force \in BOOLEAN :
       SetBegin(pr, "a", policy, partialCache, force)
  \/ \E policy \in DriverPolicies : GetBegin(pr, "a", policy)
  \/ \E policy \in DriverPolicies : InvalidateBegin(pr, <<"b">>, policy)

\* The continuations of the call of caller pr: the event loop runs each of
\* them once its await is settled, a runExclusive callback once the call is
\* first in the queue of the mutex.
OverflowContinue(pr) ==
  \/ \E rnd \in Randoms : SetEvictTarget(pr, rnd)
  \/ SetAfterTarget(pr)
  \/ \E rnd \in Randoms : SetEvictOther(pr, rnd)
  \/ SetAfterOther(pr)
  \/ SetAcquire(pr)
  \/ SetStore(pr)
  \/ GetHit(pr)
  \/ InvalidateEvict(pr)
  \/ InvalidateNext(pr)
  \/ InvalidateReturn(pr)

\* evictFromOthers is on.
OverflowInit == DriverInit /\ config.evictFromOthers

OverflowNext == \E pr \in Procs : OverflowBegin(pr) \/ OverflowContinue(pr)

\* Concurrent set, get and invalidate calls under the scheduling of the event
\* loop: a continuation that stays ready is run.
SpecOverflow ==
  OverflowInit /\ [][OverflowNext]_vars /\ \A pr \in Procs : WF_vars(OverflowContinue(pr))

\* ------------------------------------------------------------------------
\* The file-system driver (apps/api/src/drivers/file-system.ts)
\* ------------------------------------------------------------------------
\* The number of calls made to the file-system driver.
MaxFsCalls == 3

\* _getCachePath(policy, hash)
CachePath(policy, hash) == <<policy, hash>>

\* _getInvalidationIdentifierPath(policy)
InvalidationIdentifierPath(policy) == <<policy, "invalidation-identifiers.dat">>

\* _ttlFilePath(policy)
TtlFilePath(policy) == <<policy, "ttl.dat">>

\* fse.exists(path); init() created the invalidation file and the TTL file.
PathExists(path) ==
  IF path[2] \in {"invalidation-identifiers.dat", "ttl.dat"} THEN TRUE
  ELSE Has(fsFiles[path[1]], path[2])

\* lockfile.lock(path), called without options: no retry, so a held lock fails
\* with ELOCKED. The path is resolved with realpath before the lock directory
\* is made; whether a missing file fails the call (ENOENT) or the lock is
\* taken on the unresolved path is the library's, so both outcomes are kept.
LockOutcomes(path) ==
  IF Has(fsLocks, path) THEN {"ELOCKED"}
  ELSE IF PathExists(path) THEN {"locked"}
  ELSE {"ENOENT", "locked"}

\* The lock directory of path belongs to the call.
FsLock(locks, path, call) == MapSet(locks, path, call.serial)

\* release() of a lock.
FsRelease(locks, path) == MapDel(locks, path)

FsHolds(policy, pr) == Len(fsMutexes[policy]) > 0 /\ Head(fsMutexes[policy]) = pr

\* The call returned to its caller.
FsReturn(call, result) ==
  [FsIdleCall EXCEPT !.pc = "returned", !.op = call.op, !.serial = call.serial,
                     !.policy = call.policy, !.hash = call.hash, !.result = result]

\* The promise of the call rejected: no handler of the driver catches it.
FsThrow(call, message) ==
  [FsIdleCall EXCEPT !.pc = "thrown", !.op = call.op, !.serial = call.serial,
                     !.policy = call.policy, !.hash = call.hash, !.result = message]

FsFree(pr) == fsCalls[pr].pc \in {"idle", "returned", "thrown"}

\* Set.add and Set.delete on a Set kept in insertion order.
SetAdd(seq, x) == IF x \in Range(seq) THEN seq ELSE Append(seq, x)

\* The forEach of set() on the decoded invalidation file.
FsRegisterInvalidations(index, cache, hash) ==
  [h \in (DOMAIN index) \cup InvalidationHashes(cache) |->
     IF h \in InvalidationHashes(cache)
     THEN SetAdd(IF Has(index, h) THEN index[h] ELSE << >>, hash)
     ELSE index[h]]

\* The loops of delete() and of the admission loop on the decoded invalidation
\* file: the hash leaves the sets of the invalidation identifiers of the cache.
FsRemoveInvalidations(index, cache, hash) ==
  [h \in DOMAIN index |->
     IF h \in InvalidationHashes(cache) THEN Without(index[h], hash) ELSE index[h]]

\* The disk usage checkDiskSpace reports for the mount path.
DiskUsages == {0, MaxSize}

\* set() up to the first await on a mutex: the exists check, generateCache and
\* the head of _ensureCacheSizeLimit.
FsSetBegin(pr, identifier, policy, partialCache, force, currentCacheSize) ==
  LET hash == GenerateHash(identifier, TRUE)
      call == [FsIdleCall EXCEPT !.op = "set", !.serial = fsStarted + 1, !.policy = policy,
                                 !.hash = hash, !.force = force]
      g == GenerateCache(fsPolicies[policy], identifier, partialCache, now)
      cacheSize == ByteLength(g.cache)
      currentMaxSize == config.maxSize - cacheSize
      admitted == [call EXCEPT !.cache = Some(g.cache), !.currentCacheSize = currentCacheSize,
                               !.currentMaxSize = currentMaxSize, !.target = policy]
  IN  /\ FsFree(pr)
      /\ fsStarted < MaxFsCalls
      /\ fsStarted' = fsStarted + 1
      /\ IF PathExists(CachePath(policy, hash)) /\ ~force
         THEN /\ fsCalls' = [fsCalls EXCEPT ![pr] = FsReturn(call, "false")]
              /\ UNCHANGED <<fsPolicies, fsMutexes>>
         ELSE /\ fsPolicies' = [fsPolicies EXCEPT ![policy] = g.state]
              /\ IF cacheSize > config.maxSize
                 THEN /\ fsCalls' = [fsCalls EXCEPT ![pr] = FsThrow(call, "Cache too big")]
                      /\ UNCHANGED fsMutexes
                 ELSE /\ fsCalls' = [fsCalls EXCEPT ![pr] =
                           [admitted EXCEPT !.pc = IF currentCacheSize <= currentMaxSize
                                                   THEN "setTrack" ELSE "evictLock"]]
                      /\ fsMutexes' = Acquire(fsMutexes, policy, pr)
      /\ UNCHANGED <<fsFiles, fsInvalidationFile, fsTtlFile, fsLocks>>
      /\ UNCHANGED <<policyVars, driverVars>>

\* The head of a runExclusive callback of _ensureCacheSizeLimit: the lock and
\* the read of the invalidation file of the policy evicted from.
FsEvictLock(pr) ==
  LET call == fsCalls[pr]
      path == InvalidationIdentifierPath(call.target)
  IN  /\ call.pc = "evictLock"
      /\ FsHolds(call.target, pr)
      /\ \E outcome \in LockOutcomes(path) :
           IF outcome = "locked"
           THEN /\ fsLocks' = FsLock(fsLocks, path, call)
                /\ fsCalls' = [fsCalls EXCEPT ![pr] =
                     [call EXCEPT !.pc = "evictLoop", !.index = fsInvalidationFile[call.target]]]
                /\ UNCHANGED fsMutexes
           ELSE /\ fsCalls' = [fsCalls EXCEPT ![pr] = FsThrow(call, outcome)]
                /\ fsMutexes' = Release(fsMutexes, call.target)
                /\ UNCHANGED fsLocks
      /\ UNCHANGED <<fsFiles, fsInvalidationFile, fsTtlFile, fsPolicies, fsStarted>>
      /\ UNCHANGED <<policyVars, driverVars>>

\* What follows a runExclusive callback of _ensureCacheSizeLimit that
\* returned hashToEvict: the return, the error or the next policy.
FsAfterLoop(call, hashToEvict) ==
  LET remainingPolicies ==
        IF call.target = call.policy
        THEN Within(Policies, PolicySet \ {call.policy})
        ELSE Tail(call.remainingPolicies)
  IN  IF hashToEvict # Null
      THEN [call EXCEPT !.pc = "setTrack", !.target = call.policy]
      ELSE IF call.target = call.policy /\ ~config.evictFromOthers
      THEN FsThrow(call, "No caches to evict")
      ELSE IF remainingPolicies = << >>
      THEN FsThrow(call, "No caches to evict")
      ELSE [call EXCEPT !.pc = "evictLock", !.target = Head(remainingPolicies),
                        !.remainingPolicies = remainingPolicies, !.index = EmptyMap]

\* One turn of the while loop of _ensureCacheSizeLimit up to its first await:
\* evict() and the lock of the cache file, or the break with the write of the
\* invalidation file. currentCacheSize is a constant of the call, so the loop
\* is left by the break only.
FsEvictStep(pr, rnd) ==
  LET call == fsCalls[pr]
      r == Evict(fsPolicies[call.target], rnd)
      path == CachePath(call.target, r.hash)
      after == FsAfterLoop(call, r.hash)
  IN  /\ call.pc = "evictLoop"
      /\ call.currentCacheSize > call.currentMaxSize
      /\ fsPolicies' = [fsPolicies EXCEPT ![call.target] = r.state]
      /\ IF r.hash = Null
         THEN /\ fsInvalidationFile' = [fsInvalidationFile EXCEPT ![call.target] = call.index]
              /\ fsLocks' = FsRelease(fsLocks, InvalidationIdentifierPath(call.target))
              /\ fsCalls' = [fsCalls EXCEPT ![pr] = after]
              /\ fsMutexes' = IF after.pc = "evictLock"
                              THEN Acquire(Release(fsMutexes, call.target), after.target, pr)
                              ELSE IF after.pc = "setTrack"
                              THEN Acquire(Release(fsMutexes, call.target), call.policy, pr)
                              ELSE Release(fsMutexes, call.target)
         ELSE /\ \E outcome \in LockOutcomes(path) :
                   IF outcome = "locked"
                   THEN /\ fsLocks' = FsLock(fsLocks, path, call)
                        /\ fsCalls' = [fsCalls EXCEPT ![pr] =
                             [call EXCEPT !.pc = "evictFile", !.evictHash = r.hash]]
                        /\ UNCHANGED fsMutexes
                   ELSE /\ fsCalls' = [fsCalls EXCEPT ![pr] = FsThrow(call, outcome)]
                        /\ fsMutexes' = Release(fsMutexes, call.target)
                        /\ UNCHANGED fsLocks
              /\ UNCHANGED fsInvalidationFile
      /\ UNCHANGED <<fsFiles, fsTtlFile, fsStarted>>
      /\ UNCHANGED <<policyVars, driverVars>>

\* The rest of the turn: the read of the locked cache file, its removal, the
\* release and the update of the decoded invalidation file. readFile of a
\* missing file rejects, and nothing releases the two locks the call holds.
FsEvictFile(pr) ==
  LET call == fsCalls[pr]
      path == CachePath(call.target, call.evictHash)
  IN  /\ call.pc = "evictFile"
      /\ IF PathExists(path)
         THEN /\ fsFiles' = [fsFiles EXCEPT ![call.target] = MapDel(@, call.evictHash)]
              /\ fsLocks' = FsRelease(fsLocks, path)
              /\ fsCalls' = [fsCalls EXCEPT ![pr] =
                   [call EXCEPT !.pc = "evictLoop", !.evictHash = Null,
                                !.index = FsRemoveInvalidations(call.index,
                                            fsFiles[call.target][call.evictHash], call.evictHash)]]
              /\ UNCHANGED fsMutexes
         ELSE /\ fsCalls' = [fsCalls EXCEPT ![pr] = FsThrow(call, "ENOENT")]
              /\ fsMutexes' = Release(fsMutexes, call.target)
              /\ UNCHANGED <<fsFiles, fsLocks>>
      /\ UNCHANGED <<fsInvalidationFile, fsTtlFile, fsPolicies, fsStarted>>
      /\ UNCHANGED <<policyVars, driverVars>>

\* The runExclusive callback of set(): the policy tracks the hash anew.
FsSetTrack(pr) ==
  LET call == fsCalls[pr]
      s == fsPolicies[call.policy]
  IN  /\ call.pc = "setTrack"
      /\ FsHolds(call.policy, pr)
      /\ fsPolicies' = [fsPolicies EXCEPT ![call.policy] =
           Track(IF call.force THEN StopTracking(s, call.hash) ELSE s, call.hash)]
      /\ fsMutexes' = Release(fsMutexes, call.policy)
      /\ fsCalls' = [fsCalls EXCEPT ![pr] = [call EXCEPT !.pc = "setLock"]]
      /\ UNCHANGED <<fsFiles, fsInvalidationFile, fsTtlFile, fsLocks, fsStarted>>
      /\ UNCHANGED <<policyVars, driverVars>>

\* What set() does after the cache file, or the invalidation file, is written.
FsSetContinue(call, written) ==
  LET cache == call.cache[1]
  IN  IF written = "cache" /\ Len(cache.options.invalidatedBy) > 0
      THEN [call EXCEPT !.pc = "setInvalidationLock"]
      ELSE IF cache.options.ttl > 0
      THEN [call EXCEPT !.pc = "setTtlLock"]
      ELSE FsReturn(call, "true")

\* A lockfile.lock(path) of a call that holds no other lock and no mutex: the
\* call goes on at pc `locked`, or its promise rejects.
FsTakeLock(pr, pc, path, locked) ==
  LET call == fsCalls[pr]
  IN  /\ call.pc = pc
      /\ \E outcome \in LockOutcomes(path) :
           IF outcome = "locked"
           THEN /\ fsLocks' = FsLock(fsLocks, path, call)
                /\ fsCalls' = [fsCalls EXCEPT ![pr] = [call EXCEPT !.pc = locked]]
           ELSE /\ fsCalls' = [fsCalls EXCEPT ![pr] = FsThrow(call, outcome)]
                /\ UNCHANGED fsLocks

\* set(): the lock of the cache file.
FsSetLock(pr) ==
  /\ FsTakeLock(pr, "setLock", CachePath(fsCalls[pr].policy, fsCalls[pr].hash), "setWrite")
  /\ UNCHANGED <<fsFiles, fsInvalidationFile, fsTtlFile, fsPolicies, fsMutexes, fsStarted>>
  /\ UNCHANGED <<policyVars, driverVars>>

\* set(): the write of the cache file and the release of its lock.
FsSetWrite(pr) ==
  LET call == fsCalls[pr]
  IN  /\ call.pc = "setWrite"
      /\ fsFiles' = [fsFiles EXCEPT ![call.policy] = MapSet(@, call.hash, call.cache[1])]
      /\ fsLocks' = FsRelease(fsLocks, CachePath(call.policy, call.hash))
      /\ fsCalls' = [fsCalls EXCEPT ![pr] = FsSetContinue(call, "cache")]
      /\ UNCHANGED <<fsInvalidationFile, fsTtlFile, fsPolicies, fsMutexes, fsStarted>>
      /\ UNCHANGED <<policyVars, driverVars>>

\* set(): the lock of the invalidation file.
FsSetInvalidationLock(pr) ==
  /\ FsTakeLock(pr, "setInvalidationLock", InvalidationIdentifierPath(fsCalls[pr].policy),
                "setInvalidationWrite")
  /\ UNCHANGED <<fsFiles, fsInvalidationFile, fsTtlFile, fsPolicies, fsMutexes, fsStarted>>
  /\ UNCHANGED <<policyVars, driverVars>>

\* set(): the hash joins the sets of its invalidation identifiers in the file.
FsSetInvalidationWrite(pr) ==
  LET call == fsCalls[pr]
  IN  /\ call.pc = "setInvalidationWrite"
      /\ fsInvalidationFile' = [fsInvalidationFile EXCEPT ![call.policy] =
           FsRegisterInvalidations(@, call.cache[1], call.hash)]
      /\ fsLocks' = FsRelease(fsLocks, InvalidationIdentifierPath(call.policy))
      /\ fsCalls' = [fsCalls EXCEPT ![pr] = FsSetContinue(call, "invalidations")]
      /\ UNCHANGED <<fsFiles, fsTtlFile, fsPolicies, fsMutexes, fsStarted>>
      /\ UNCHANGED <<policyVars, driverVars>>

\* set(): the lock of the TTL file.
FsSetTtlLock(pr) ==
  /\ FsTakeLock(pr, "setTtlLock", TtlFilePath(fsCalls[pr].policy), "setTtlWrite")
  /\ UNCHANGED <<fsFiles, fsInvalidationFile, fsTtlFile, fsPolicies, fsMutexes, fsStarted>>
  /\ UNCHANGED <<policyVars, driverVars>>

\* set(): the expiry of the cache is written to the TTL file.
FsSetTtlWrite(pr) ==
  LET call == fsCalls[pr]
      cache == call.cache[1]
  IN  /\ call.pc = "setTtlWrite"
      /\ fsTtlFile' = [fsTtlFile EXCEPT ![call.policy] =
           MapSet(@, call.hash, cache.ctime + cache.options.ttl)]
      /\ fsLocks' = FsRelease(fsLocks, TtlFilePath(call.policy))
      /\ fsCalls' = [fsCalls EXCEPT ![pr] = FsReturn(call, "true")]
      /\ UNCHANGED <<fsFiles, fsInvalidationFile, fsPolicies, fsMutexes, fsStarted>>
      /\ UNCHANGED <<policyVars, driverVars>>

\* get() up to the await on the mutex: the exists check and the lock of the
\* cache file.
FsGetBegin(pr, identifier, policy) ==
  LET hash == GenerateHash(identifier, TRUE)
      path == CachePath(policy, hash)
      call == [FsIdleCall EXCEPT !.op = "get", !.serial = fsStarted + 1, !.policy = policy,
                                 !.hash = hash]
  IN  /\ FsFree(pr)
      /\ fsStarted < MaxFsCalls
      /\ fsStarted' = fsStarted + 1
      /\ IF ~PathExists(path)
         THEN /\ fsCalls' = [fsCalls EXCEPT ![pr] = FsReturn(call, "null")]
              /\ UNCHANGED <<fsLocks, fsMutexes>>
         ELSE \E outcome \in LockOutcomes(path) :
                IF outcome = "locked"
                THEN /\ fsLocks' = FsLock(fsLocks, path, call)
                     /\ fsCalls' = [fsCalls EXCEPT ![pr] = [call EXCEPT !.pc = "getHit"]]
                     /\ fsMutexes' = Acquire(fsMutexes, policy, pr)
                ELSE /\ fsCalls' = [fsCalls EXCEPT ![pr] = FsThrow(call, outcome)]
                     /\ UNCHANGED <<fsLocks, fsMutexes>>
      /\ UNCHANGED <<fsFiles, fsInvalidationFile, fsTtlFile, fsPolicies>>
      /\ UNCHANGED <<policyVars, driverVars>>

\* get(): the hit inside the mutex, then the read and the rewrite of the
\* locked cache file with one more hit and the access time.
FsGetHit(pr) ==
  LET call == fsCalls[pr]
      path == CachePath(call.policy, call.hash)
      cache == fsFiles[call.policy][call.hash]
  IN  /\ call.pc = "getHit"
      /\ FsHolds(call.policy, pr)
      /\ fsPolicies' = [fsPolicies EXCEPT ![call.policy] = Hit(@, call.hash)]
      /\ fsMutexes' = Release(fsMutexes, call.policy)
      /\ IF PathExists(path)
         THEN /\ fsFiles' = [fsFiles EXCEPT ![call.policy][call.hash] =
                   [cache EXCEPT !.atime = now, !.hits = cache.hits + 1]]
              /\ fsLocks' = FsRelease(fsLocks, path)
              /\ fsCalls' = [fsCalls EXCEPT ![pr] = FsReturn(call, "cache")]
         ELSE /\ fsCalls' = [fsCalls EXCEPT ![pr] = FsThrow(call, "ENOENT")]
              /\ UNCHANGED <<fsFiles, fsLocks>>
      /\ UNCHANGED <<fsInvalidationFile, fsTtlFile, fsStarted>>
      /\ UNCHANGED <<policyVars, driverVars>>

\* delete() up to the read of the cache file: the exists check and the lock.
FsDeleteBegin(pr, identifier, policy) ==
  LET hash == GenerateHash(identifier, TRUE)
      path == CachePath(policy, hash)
      call == [FsIdleCall EXCEPT !.op = "delete", !.serial = fsStarted + 1, !.policy = policy,
                                 !.hash = hash]
  IN  /\ FsFree(pr)
      /\ fsStarted < MaxFsCalls
      /\ fsStarted' = fsStarted + 1
      /\ IF ~PathExists(path)
         THEN /\ fsCalls' = [fsCalls EXCEPT ![pr] = FsReturn(call, "undefined")]
              /\ UNCHANGED fsLocks
         ELSE \E outcome \in LockOutcomes(path) :
                IF outcome = "locked"
                THEN /\ fsLocks' = FsLock(fsLocks, path, call)
                     /\ fsCalls' = [fsCalls EXCEPT ![pr] = [call EXCEPT !.pc = "deleteFile"]]
                ELSE /\ fsCalls' = [fsCalls EXCEPT ![pr] = FsThrow(call, outcome)]
                     /\ UNCHANGED fsLocks
      /\ UNCHANGED <<fsFiles, fsInvalidationFile, fsTtlFile, fsPolicies, fsMutexes>>
      /\ UNCHANGED <<policyVars, driverVars>>

\* delete(): the read and the removal of the locked cache file, the release.
FsDeleteFile(pr) ==
  LET call == fsCalls[pr]
      path == CachePath(call.policy, call.hash)
  IN  /\ call.pc = "deleteFile"
      /\ IF PathExists(path)
         THEN /\ fsFiles' = [fsFiles EXCEPT ![call.policy] = MapDel(@, call.hash)]
              /\ fsLocks' = FsRelease(fsLocks, path)
              /\ fsCalls' = [fsCalls EXCEPT ![pr] =
                   [call EXCEPT !.pc = "deleteStopTracking",
                                !.cache = Some(fsFiles[call.policy][call.hash])]]
              /\ fsMutexes' = Acquire(fsMutexes, call.policy, pr)
         ELSE /\ fsCalls' = [fsCalls EXCEPT ![pr] = FsThrow(call, "ENOENT")]
              /\ UNCHANGED <<fsFiles, fsLocks, fsMutexes>>
      /\ UNCHANGED <<fsInvalidationFile, fsTtlFile, fsPolicies, fsStarted>>
      /\ UNCHANGED <<policyVars, driverVars>>

\* delete(): the runExclusive callback; the call is over when the deleted
\* cache names no invalidation identifier.
FsDeleteStopTracking(pr) ==
  LET call == fsCalls[pr]
  IN  /\ call.pc = "deleteStopTracking"
      /\ FsHolds(call.policy, pr)
      /\ fsPolicies' = [fsPolicies EXCEPT ![call.policy] = StopTracking(@, call.hash)]
      /\ fsMutexes' = Release(fsMutexes, call.policy)
      /\ fsCalls' = [fsCalls EXCEPT ![pr] =
           IF Len(call.cache[1].options.invalidatedBy) > 0
           THEN [call EXCEPT !.pc = "deleteInvalidationLock"]
           ELSE FsReturn(call, "undefined")]
      /\ UNCHANGED <<fsFiles, fsInvalidationFile, fsTtlFile, fsLocks, fsStarted>>
      /\ UNCHANGED <<policyVars, driverVars>>

\* delete(): the lock of the invalidation file.
FsDeleteInvalidationLock(pr) ==
  /\ FsTakeLock(pr, "deleteInvalidationLock", InvalidationIdentifierPath(fsCalls[pr].policy),
                "deleteInvalidationWrite")
  /\ UNCHANGED <<fsFiles, fsInvalidationFile, fsTtlFile, fsPolicies, fsMutexes, fsStarted>>
  /\ UNCHANGED <<policyVars, driverVars>>

\* delete(): the hash leaves the sets of the invalidation identifiers the
\* deleted cache file named.
FsDeleteInvalidationWrite(pr) ==
  LET call == fsCalls[pr]
  IN  /\ call.pc = "deleteInvalidationWrite"
      /\ fsInvalidationFile' = [fsInvalidationFile EXCEPT ![call.policy] =
           FsRemoveInvalidations(@, call.cache[1], call.hash)]
      /\ fsLocks' = FsRelease(fsLocks, InvalidationIdentifierPath(call.policy))
      /\ fsCalls' = [fsCalls EXCEPT ![pr] = FsReturn(call, "undefined")]
      /\ UNCHANGED <<fsFiles, fsTtlFile, fsPolicies, fsMutexes, fsStarted>>
      /\ UNCHANGED <<policyVars, driverVars>>

\* invalidate(): the for loop over the identifiers from one await to the
\* next; an identifier without a set, or with an empty one, is passed over.
RECURSIVE FsInvalidateLookup(_, _)
FsInvalidateLookup(call, identifiers) ==
  IF identifiers = << >>
  THEN [call EXCEPT !.pc = "invalidateWrite", !.identifiers = << >>,
                    !.invalidationHash = Null, !.affectedCaches = << >>]
  ELSE LET hash == GenerateHash(Head(identifiers), FALSE)
       IN  IF ~Has(call.index, hash) \/ call.index[hash] = << >>
           THEN FsInvalidateLookup(call, Tail(identifiers))
           ELSE [call EXCEPT !.pc = "invalidateStopTracking", !.identifiers = Tail(identifiers),
                             !.invalidationHash = hash, !.affectedCaches = call.index[hash]]

\* invalidate() up to the first await on the mutex: the lock and the read of
\* the invalidation file, held until the end of the call.
FsInvalidateBegin(pr, identifiers, policy) ==
  LET path == InvalidationIdentifierPath(policy)
      call == [FsIdleCall EXCEPT !.op = "invalidate", !.serial = fsStarted + 1,
                                 !.policy = policy, !.index = fsInvalidationFile[policy]]
      c == FsInvalidateLookup(call, identifiers)
  IN  /\ FsFree(pr)
      /\ fsStarted < MaxFsCalls
      /\ fsStarted' = fsStarted + 1
      /\ \E outcome \in LockOutcomes(path) :
           IF outcome = "locked"
           THEN /\ fsLocks' = FsLock(fsLocks, path, call)
                /\ fsCalls' = [fsCalls EXCEPT ![pr] = c]
                /\ fsMutexes' = IF c.pc = "invalidateStopTracking"
                                THEN Acquire(fsMutexes, policy, pr) ELSE fsMutexes
           ELSE /\ fsCalls' = [fsCalls EXCEPT ![pr] = FsThrow(call, outcome)]
                /\ UNCHANGED <<fsLocks, fsMutexes>>
      /\ UNCHANGED <<fsFiles, fsInvalidationFile, fsTtlFile, fsPolicies>>
      /\ UNCHANGED <<policyVars, driverVars>>

\* invalidate(): the runExclusive callback for the next affected cache.
FsInvalidateStopTracking(pr) ==
  LET call == fsCalls[pr]
  IN  /\ call.pc = "invalidateStopTracking"
      /\ FsHolds(call.policy, pr)
      /\ fsPolicies' = [fsPolicies EXCEPT ![call.policy] =
           StopTracking(@, Head(call.affectedCaches))]
      /\ fsMutexes' = Release(fsMutexes, call.policy)
      /\ fsCalls' = [fsCalls EXCEPT ![pr] = [call EXCEPT !.pc = "invalidateLock"]]
      /\ UNCHANGED <<fsFiles, fsInvalidationFile, fsTtlFile, fsLocks, fsStarted>>
      /\ UNCHANGED <<policyVars, driverVars>>

\* invalidate(): the lock of the cache file of the affected cache; when it
\* fails the promise rejects with the invalidation file still locked.
FsInvalidateLock(pr) ==
  /\ FsTakeLock(pr, "invalidateLock",
                CachePath(fsCalls[pr].policy, Head(fsCalls[pr].affectedCaches)),
                "invalidateRemove")
  /\ UNCHANGED <<fsFiles, fsInvalidationFile, fsTtlFile, fsPolicies, fsMutexes, fsStarted>>
  /\ UNCHANGED <<policyVars, driverVars>>

\* invalidate(): the removal of the cache file and the release of its lock;
\* after the last affected cache the identifier leaves the decoded index.
FsInvalidateRemove(pr) ==
  LET call == fsCalls[pr]
      cacheHash == Head(call.affectedCaches)
      rest == Tail(call.affectedCaches)
      c == IF rest # << >>
           THEN [call EXCEPT !.pc = "invalidateStopTracking", !.affectedCaches = rest]
           ELSE FsInvalidateLookup([call EXCEPT !.index = MapDel(@, call.invalidationHash)],
                                   call.identifiers)
  IN  /\ call.pc = "invalidateRemove"
      /\ fsFiles' = [fsFiles EXCEPT ![call.policy] = MapDel(@, cacheHash)]
      /\ fsLocks' = FsRelease(fsLocks, CachePath(call.policy, cacheHash))
      /\ fsCalls' = [fsCalls EXCEPT ![pr] = c]
      /\ fsMutexes' = IF c.pc = "invalidateStopTracking"
                      THEN Acquire(fsMutexes, call.policy, pr) ELSE fsMutexes
      /\ UNCHANGED <<fsInvalidationFile, fsTtlFile, fsPolicies, fsStarted>>
      /\ UNCHANGED <<policyVars, driverVars>>

\* invalidate(): the write of the invalidation file and the release of its lock.
FsInvalidateWrite(pr) ==
  LET call == fsCalls[pr]
  IN  /\ call.pc = "invalidateWrite"
      /\ fsInvalidationFile' = [fsInvalidationFile EXCEPT ![call.policy] = call.index]
      /\ fsLocks' = FsRelease(fsLocks, InvalidationIdentifierPath(call.policy))
      /\ fsCalls' = [fsCalls EXCEPT ![pr] = FsReturn(call, "undefined")]
      /\ UNCHANGED <<fsFiles, fsTtlFile, fsPolicies, fsMutexes, fsStarted>>
      /\ UNCHANGED <<policyVars, driverVars>>

\* The caches of the callers of the file-system driver.
FsCaches ==
  {[data |-> [value |-> "x", bytes |-> 400], options |-> o] :
     o \in {EmptyMap, "invalidatedBy" :> <<"b">>, "ttl" :> 1}}

\* The steps of the calls of caller pr of the file-system driver on the
\* caches of the identifiers.
FsCallStep(pr, identifiers) ==
  \/ \E identifier \in identifiers, policy \in {"LRU"}, partialCache \in FsCaches,
        force \in BOOLEAN, currentCacheSize \in DiskUsages :
       FsSetBegin(pr, identifier, policy, partialCache, force, currentCacheSize)
  \/ FsEvictLock(pr)
  \/ \E rnd \in Randoms : FsEvictStep(pr, rnd)
  \/ FsEvictFile(pr)
  \/ FsSetTrack(pr)
  \/ FsSetLock(pr)
  \/ FsSetWrite(pr)
  \/ FsSetInvalidationLock(pr)
  \/ FsSetInvalidationWrite(pr)
  \/ FsSetTtlLock(pr)
  \/ FsSetTtlWrite(pr)
  \/ \E identifier \in identifiers : FsGetBegin(pr, identifier, "LRU")
  \/ FsGetHit(pr)
  \/ \E identifier \in identifiers : FsDeleteBegin(pr, identifier, "LRU")
  \/ FsDeleteFile(pr)
  \/ FsDeleteStopTracking(pr)
  \/ FsDeleteInvalidationLock(pr)
  \/ FsDeleteInvalidationWrite(pr)
  \/ FsInvalidateBegin(pr, <<"b">>, "LRU")
  \/ FsInvalidateStopTracking(pr)
  \/ FsInvalidateLock(pr)
  \/ FsInvalidateRemove(pr)
  \/ FsInvalidateWrite(pr)

\* Two callers of the file-system driver on one cache.
FsNext == \E pr \in Procs : FsCallStep(pr, {"a"})

SpecFs == DriverInit /\ [][FsNext]_vars

\* One caller of the file-system driver: the calls follow one another.
FsSeqNext == FsCallStep(1, CacheIdentifiers)

SpecFsSeq == DriverInit /\ [][FsSeqNext]_vars

\* ------------------------------------------------------------------------
\* FileSystemDriver.init on a mount path that already holds files
\* ------------------------------------------------------------------------
\* The orders in which a Map of the hashes can be iterated.
IterationOrders(hashes) ==
  {order \in [1..Cardinality(hashes) -> hashes] : Range(order) = hashes}

\* lockfile.lock(path) inside init(): ELOCKED on a lock directory another
\* process left behind; on a missing file the library's realpath either
\* fails (enoent) or the lock is taken.
InitLockOutcome(locks, files, path, enoent) ==
  IF Has(locks, path) THEN "ELOCKED"
  ELSE IF Has(files, path[2]) \/ ~enoent THEN "locked"
  ELSE "ENOENT"

\* The loop of RecoverTTLTimers over the decoded TTL file, at time t: an
\* expired entry leaves the map and its cache file is removed under a lock of
\* the file; every other entry gets its timer back. A failed lock throws out
\* of the loop.
RECURSIVE RecoverTTLEntries(_, _, _, _, _, _)
RecoverTTLEntries(policy, order, r, locks, t, enoent) ==
  IF order = << >> \/ r.thrown THEN r
  ELSE LET cacheHash == Head(order)
           timestamp == r.ttlMap[cacheHash]
       IN  IF t > timestamp
           THEN IF InitLockOutcome(locks, r.files, CachePath(policy, cacheHash), enoent) = "locked"
                THEN RecoverTTLEntries(policy, Tail(order),
                       [r EXCEPT !.ttlMap = MapDel(@, cacheHash), !.files = MapDel(@, cacheHash)],
                       locks, t, enoent)
                ELSE [r EXCEPT !.ttlMap = MapDel(@, cacheHash), !.thrown = TRUE]
           ELSE RecoverTTLEntries(policy, Tail(order),
                  [r EXCEPT !.policy = RegisterTTL(@, cacheHash, timestamp - t, t)],
                  locks, t, enoent)

\* RecoverTTLTimers of init() for one policy: the TTL file is locked, read,
\* walked and written back; an error is caught and logged, and leaves the
\* TTL file as it was and its lock taken.
RecoverTTLTimers(policy, order, locks, t, enoent) ==
  LET start == [policy |-> NewPolicy(policy), files |-> fsFiles[policy],
                ttlMap |-> fsTtlFile[policy], thrown |-> FALSE]
      entries == SelectSeq(order, LAMBDA h : Has(fsTtlFile[policy], h))
      r == RecoverTTLEntries(policy, entries, start, locks, t, enoent)
  IN  IF InitLockOutcome(locks, fsFiles[policy], TtlFilePath(policy), FALSE) # "locked"
      THEN [start EXCEPT !.thrown = TRUE] @@ [locked |-> FALSE]
      ELSE IF r.thrown
      THEN [r EXCEPT !.ttlMap = fsTtlFile[policy]] @@ [locked |-> TRUE]
      ELSE r @@ [locked |-> FALSE]

\* The process ends and a new one runs the constructor and init() at time t
\* on the same mount path: the cache files, the invalidation files and the
\* TTL files are the ones on disk, the policies are new objects, and nothing
\* in init() tracks the cache files found. The lock directories of the old
\* process are still there or were removed when it exited.
FsRestart(t, enoent) ==
  /\ \A pr \in Procs : FsFree(pr)
  /\ fsStarted > 0
  /\ t >= now
  /\ now' = t
  /\ \E locks \in {fsLocks, EmptyMap}, order \in IterationOrders(CacheHashes) :
       LET recovered == [p \in PolicySet |-> RecoverTTLTimers(p, order, locks, t, enoent)]
           heldTtl == {TtlFilePath(p) : p \in {q \in PolicySet : recovered[q].locked}}
       IN  /\ fsPolicies' = [p \in PolicySet |-> recovered[p].policy]
           /\ fsFiles' = [p \in PolicySet |-> recovered[p].files]
           /\ fsTtlFile' = [p \in PolicySet |-> recovered[p].ttlMap]
           /\ fsLocks' = [path \in (DOMAIN locks) \cup heldTtl |->
                            IF path \in heldTtl THEN 0 ELSE locks[path]]
  /\ fsMutexes' = [p \in PolicySet |-> << >>]
  /\ fsCalls' = [pr \in Procs |-> FsIdleCall]
  /\ UNCHANGED <<fsInvalidationFile, fsStarted>>
  /\ UNCHANGED <<caches, policies, invalidations, mutexes, config, calls, started, expected,
                 snapshotFile, bootTime, snapshotTimer, policyVars>>

\* The process is restarted at some later time.
FsRestartLater == \E t \in 0..MaxTime, enoent \in BOOLEAN : FsRestart(t, enoent)

\* One caller of the file-system driver, and restarts of the process between
\* its calls.
FsRestartNext == FsCallStep(1, CacheIdentifiers) \/ FsRestartLater

SpecFsRestart == DriverInit /\ [][FsRestartNext]_vars

\* ------------------------------------------------------------------------
\* Properties of the memory driver
\* ------------------------------------------------------------------------
\* The serialized size of the entries stored over all policies.
RECURSIVE StoredBytes(_)
StoredBytes(ps) ==
  IF ps = {} THEN 0
  ELSE LET p == CHOOSE x \in ps : TRUE
       IN  SumBytes(caches[p], DOMAIN caches[p]) + StoredBytes(ps \ {p})

\* C1: under any interleaving of concurrent set calls, whenever no call is in
\* progress the total serialized size of the entries stored over all policies
\* is at most maxSize.
C1_SizeWithinBudget == Quiescent => StoredBytes(PolicySet) <= config.maxSize

\* C2: a set whose entry does not fit at once and for which the evictions of
\* the target policy (and of the other policies when evictFromOthers is set)
\* have freed enough room goes on to store the entry and return true: once
\* its eviction loop has ended with room for the entry, the call does not go
\* on to evict further or fail.
C2_EvictionAdmits ==
  \A pr \in Procs :
    (/\ calls[pr].op = "set"
     /\ calls[pr].pc \in {"afterTarget", "afterOther"}
     /\ GetCurrentCacheSize(caches) <= calls[pr].currentMaxSize)
    => calls[pr].hashToEvict # Null

\* Each key is tracked at most once by the structures the policy evicts from.
TrackedOnce(s) ==
  LET all == EvictAll(s, 0)
  IN  \A i, j \in 1..Len(all) : all[i] = all[j] => i = j

\* C3: for each policy, whenever no operation is in progress the keys of the
\* entry table are the keys the policy tracks, each tracked once.
C3_TableMatchesPolicy ==
  Quiescent =>
    \A p \in PolicySet :
      /\ DOMAIN caches[p] = TrackedKeys(policies[p])
      /\ TrackedOnce(policies[p])

\* C4: sequential calls: after set(id, P, e) returned true and while the key
\* is neither removed nor overwritten, the n-th following get(id, P) returns
\* an entry whose data is e.data and whose hits is n.
C4_GetReturnsDataAndHits ==
  \A pr \in Procs :
    LET call == calls[pr]
        hash == GenerateHash(call.cache[1].identifier, TRUE)
    IN  (/\ call.op = "get" /\ call.pc = "done" /\ call.result = "cache"
         /\ Has(expected[call.policy], hash))
        => /\ call.cache[1].data = expected[call.policy][hash].data
           /\ call.cache[1].hits = expected[call.policy][hash].gets

\* The second get after a set has returned the entry.
C4_Witness ==
  \E pr \in Procs :
    /\ calls[pr].op = "get" /\ calls[pr].pc = "done" /\ calls[pr].result = "cache"
    /\ calls[pr].cache[1].hits = 2
    /\ Has(expected[calls[pr].policy], GenerateHash(calls[pr].cache[1].identifier, TRUE))

\* C5: once invalidate([i1..in], P) has returned to its caller, every entry of
\* P whose invalidatedBy held one of the identifiers is gone from the entry
\* table and is no longer tracked by the policy.
C5_InvalidatedOnReturn ==
  \A pr \in Procs :
    (calls[pr].op = "invalidate" /\ calls[pr].returned)
    => \A h \in calls[pr].targets :
         /\ ~Has(caches[calls[pr].policy], h)
         /\ h \notin TrackedKeys(policies[calls[pr].policy])

\* C6: after a set with options.ttl = d > 0 returned true, creating the key or
\* overwriting it with force, a timer for the key is outstanding that fires d
\* after the entry was created, and the entry does not outlive it.
C6_TtlTimerOutstanding ==
  Quiescent =>
    \A p \in PolicySet : \A h \in DOMAIN caches[p] :
      LET cache == caches[p][h]
      IN  cache.options.ttl > 0 =>
            /\ Has(policies[p].ttlMap, h)
            /\ policies[p].ttlMap[h].at = cache.ctime + cache.options.ttl
            /\ now <= cache.ctime + cache.options.ttl

\* C10: an entry restored from a snapshot with ttl > 0 has a timer for the
\* remaining duration: the timer fires at ctime + ttl.
C10_RecoveredTimerRemaining ==
  \A p \in PolicySet : \A h \in DOMAIN caches[p] :
    LET cache == caches[p][h]
    IN  (cache.options.ttl > 0 /\ cache.ctime < bootTime)
        => /\ Has(policies[p].ttlMap, h)
           /\ policies[p].ttlMap[h].at = cache.ctime + cache.options.ttl

\* No call was made since the process started from a snapshot file.
JustRecovered ==
  /\ snapshotFile # << >>
  /\ 0 < bootTime /\ bootTime = now
  /\ \A pr \in Procs : calls[pr].pc = "idle"

\* C11: recovery on startup: every entry of the snapshot with ttl > 0 and
\* ctime + ttl < now is absent from the restored entry table and is not
\* tracked; every other entry of the snapshot is in the entry table and is
\* tracked by its policy.
C11_RecoveryDropsExpired ==
  JustRecovered =>
    \A p \in PolicySet : \A h \in DOMAIN snapshotFile[1].caches[p] :
      LET cache == snapshotFile[1].caches[p][h]
      IN  IF cache.options.ttl > 0 /\ cache.ctime + cache.options.ttl < now
          THEN ~Has(caches[p], h) /\ h \notin TrackedKeys(policies[p])
          ELSE Has(caches[p], h) /\ h \in TrackedKeys(policies[p])

\* A recovery dropped an entry of the snapshot whose TTL was over and kept
\* another one.
C11_Witness ==
  /\ JustRecovered
  /\ \E p \in PolicySet : \E h \in DOMAIN snapshotFile[1].caches[p] :
       /\ snapshotFile[1].caches[p][h].ctime + snapshotFile[1].caches[p][h].options.ttl < now
       /\ ~Has(caches[p], h)
  /\ \E p \in PolicySet : \E h \in DOMAIN snapshotFile[1].caches[p] :
       /\ Has(caches[p], h) /\ h \in TrackedKeys(policies[p])

\* C12: for each policy, in every reachable state, each pair of an
\* invalidation key and a cache key in the invalidation index refers to a
\* cache key that is stored and tracked and whose stored entry's invalidatedBy
\* holds an identifier that hashes to the invalidation key, also after force
\* overwrites, TTL expiries, size evictions and invalidations.
C12_InvalidationIndexSound ==
  \A p \in PolicySet : \A invalidationHash \in DOMAIN invalidations[p] :
    \A h \in invalidations[p][invalidationHash] :
      /\ Has(caches[p], h)
      /\ h \in TrackedKeys(policies[p])
      /\ invalidationHash \in InvalidationHashes(caches[p][h])

\* C13: for one identifier and policy, concurrent operations take effect one
\* after another in the order they acquired the policy mutex: of two
\* concurrent set calls without force for a key that is not yet stored, one
\* stores its entry and returns true and the other finds the key present and
\* returns false. So a set without force that holds the mutex to store its
\* entry and return true finds the key not stored.
C13_SetsTakeEffectInMutexOrder ==
  \A pr \in Procs :
    LET call == calls[pr]
    IN  (call.op = "set" /\ call.pc = "store" /\ ~call.force /\ Holds(call.policy, pr))
        => ~Has(caches[call.policy], call.hash)

\* C14: set(id, P, e) without force on a key that is already stored returns
\* false and changes nothing: the stored entries, the orderings, hit counts and
\* TTL timers of the policies and the invalidation index are as they were
\* before the call.
C14_SkippedSetChangesNothing ==
  [][(\E pr \in Procs :
        /\ started' = started + 1
        /\ calls'[pr].op = "set" /\ calls'[pr].pc = "done" /\ calls'[pr].result = "false"
        /\ \A other \in Procs \ {pr} : calls'[other] = calls[other])
     => /\ caches' = caches
        /\ policies' = policies
        /\ invalidations' = invalidations]_vars

\* A set has returned false while an entry with a TTL timer and invalidation
\* identifiers is stored.
C14_Witness ==
  /\ calls[1].op = "set" /\ calls[1].pc = "done" /\ calls[1].result = "false"
  /\ \E p \in PolicySet : \E h \in DOMAIN caches[p] :
       /\ Has(policies[p].ttlMap, h)
       /\ \E invalidationHash \in DOMAIN invalidations[p] : h \in invalidations[p][invalidationHash]

\* C15: admission evicts only while the current total size plus the size of
\* the new entry exceeds maxSize, the current size taken anew after each
\* eviction: it stops at the first eviction after which the new entry fits.
\* So when an eviction loop of a set has removed entries, the new entry did
\* not fit before the last of them was removed.
C15_EvictsOnlyWhileNeeded ==
  [][\A pr \in Procs :
       (/\ calls[pr].pc \in {"evictTarget", "evictOther"}
        /\ calls'[pr].pc \in {"afterTarget", "afterOther"})
       => \A p \in PolicySet :
            LET removed == (DOMAIN caches[p]) \ (DOMAIN caches'[p])
            IN  removed # {} =>
                  \E last \in removed :
                    GetCurrentCacheSize([caches' EXCEPT ![p] = MapSet(@, last, caches[p][last])])
                      > calls[pr].currentMaxSize]_vars

\* The set of caller pr is running: it has not returned or failed yet.
SetRunning(call) == call.op = "set" /\ call.pc \notin {"idle", "done"}

\* The target policy of the set of caller pr that takes the step.
TargetOfStep(pr) ==
  IF SetRunning(calls[pr]) THEN calls[pr].policy ELSE calls'[pr].policy

\* C16: with evictFromOthers off, when the target policy has no key left to
\* evict and the new entry still does not fit, set fails with
\* NoCachesToEvict, the new entry is not stored (the entry table stays as it
\* is), and no entry of another policy is evicted or changed.
C16_NoCachesToEvictLeavesOthers ==
  [][~config.evictFromOthers =>
       \A pr \in Procs :
         LET call == calls[pr]
         IN  (calls'[pr] # call /\ (SetRunning(call) \/ SetRunning(calls'[pr]))) =>
               /\ \A other \in PolicySet \ {TargetOfStep(pr)} :
                    /\ caches'[other] = caches[other]
                    /\ policies'[other] = policies[other]
                    /\ invalidations'[other] = invalidations[other]
               /\ (/\ call.pc = "afterTarget" /\ call.hashToEvict = Null
                   /\ GetCurrentCacheSize(caches) > call.currentMaxSize)
                  => /\ calls'[pr].pc = "done"
                     /\ calls'[pr].result = "NoCachesToEvict"
                     /\ caches' = caches]_vars

\* A set has failed with NoCachesToEvict with evictFromOthers off while
\* another policy holds an entry and no entry of the callers fits.
C16_Witness ==
  /\ ~config.evictFromOthers
  /\ calls[1].op = "set" /\ calls[1].pc = "done" /\ calls[1].result = "NoCachesToEvict"
  /\ \E p \in PolicySet : caches[p] # EmptyMap
  /\ \A d \in Payloads : GetCurrentCacheSize(caches) + d.bytes > config.maxSize

\* C17: set of an entry whose serialized size alone exceeds maxSize fails
\* with CacheTooBig without evicting anything: no set goes on to admission
\* with such an entry, and the call that fails with CacheTooBig leaves the
\* entry table and the tracked keys of every policy as they were.
C17_CacheTooBigChangesNothing ==
  [][\A pr \in Procs :
       /\ SetRunning(calls'[pr]) => ByteLength(calls'[pr].cache[1]) <= config.maxSize
       /\ (/\ started' = started + 1
           /\ calls'[pr].op = "set" /\ calls'[pr].pc = "done"
           /\ calls'[pr].result = "CacheTooBig"
           /\ \A other \in Procs \ {pr} : calls'[other] = calls[other])
          => /\ caches' = caches
             /\ \A p \in PolicySet : TrackedKeys(policies'[p]) = TrackedKeys(policies[p])]_vars

\* A set has failed with CacheTooBig while an entry is stored.
C17_Witness ==
  /\ calls[1].op = "set" /\ calls[1].pc = "done" /\ calls[1].result = "CacheTooBig"
  /\ \E p \in PolicySet : caches[p] # EmptyMap

\* C18: an entry stored with ttl = 0 is never removed by TTL expiry: whatever
\* successful or failed set calls were made before for the same identifier,
\* when no call is in progress no TTL timer is outstanding for a key whose
\* stored entry has ttl = 0.
C18_NoTimerWithoutTtl ==
  Quiescent =>
    \A p \in PolicySet : \A h \in DOMAIN caches[p] :
      caches[p][h].options.ttl = 0 => ~Has(policies[p].ttlMap, h)

\* C19: LRU policy: hit(k) makes k the most recently used key and evict()
\* returns the least recently used key (tracked or hit longest ago); repeated
\* evict() returns every tracked key exactly once, least recent first, before
\* it returns null.
C19_LRUEvictsLeastRecentFirst ==
  pol.policy = "LRU" =>
    /\ EvictAll(pol, 0) = recency
    /\ LinkedListEvictAll(pol) = recency

\* Keys A, B and C were tracked in this order, A was hit and evict() returned
\* B: C and A are left, A the most recent.
C19_Witness ==
  /\ pol.policy = "LRU"
  /\ arrival = <<GenerateHash("a", TRUE), GenerateHash("c", TRUE)>>
  /\ hitCount = (GenerateHash("a", TRUE) :> 1) @@ (GenerateHash("c", TRUE) :> 0)
  /\ evicted = GenerateHash("b", TRUE)
  /\ recency = <<GenerateHash("c", TRUE), GenerateHash("a", TRUE)>>
  /\ EvictAll(pol, 0) = recency

\* C20: FIFO policy: hit is a no-op and evict() returns the keys in the order
\* they were tracked, whatever the hits, each tracked key exactly once, before
\* it returns null.
C20_FIFOEvictsInArrivalOrder ==
  pol.policy = "FIFO" =>
    /\ EvictAll(pol, 0) = arrival
    /\ \A hash \in CacheHashes : Hit(pol, hash) = pol

\* Keys A, B and C were tracked in this order and A was hit: evict() returns
\* A and the next evict() returns B.
C20_Witness ==
  /\ pol.policy = "FIFO"
  /\ arrival = <<GenerateHash("a", TRUE), GenerateHash("b", TRUE), GenerateHash("c", TRUE)>>
  /\ hitCount[GenerateHash("a", TRUE)] = 1
  /\ Evict(pol, 0).hash = GenerateHash("a", TRUE)
  /\ Evict(Evict(pol, 0).state, 0).hash = GenerateHash("b", TRUE)

\* C21: after delete(identifier, policy) of the file-system driver returned,
\* get finds no cache file for the key, the policy does not track the key and
\* no set of the invalidation file holds the key.
C21_DeletedKeyIsGone ==
  [][\A pr \in Procs :
       (fsCalls'[pr].op = "delete" /\ fsCalls'[pr].pc = "returned" /\ fsCalls'[pr] # fsCalls[pr]) =>
         LET policy == fsCalls'[pr].policy
             hash == fsCalls'[pr].hash
         IN  /\ ~Has(fsFiles'[policy], hash)
             /\ hash \notin TrackedKeys(fsPolicies'[policy])
             /\ \A h \in DOMAIN fsInvalidationFile'[policy] :
                  hash \notin Range(fsInvalidationFile'[policy][h])]_vars

\* C24: every file lock of the file-system driver belongs to a call that is
\* still running: a call that ended, by a return or by an error, left none.
C24_FileLocksReleased ==
  \A path \in DOMAIN fsLocks :
    \E pr \in Procs : ~FsFree(pr) /\ fsCalls[pr].serial = fsLocks[path]

\* The structures of a policy that order its keys: everything but the TTL table.
OrderingStructures(s) == [s EXCEPT !.ttlMap = EmptyMap, !.timeouts = {}]

\* C22: a step that changes the entry table, the invalidation index or the
\* ordering structures of a policy is taken while the mutex of the policy is
\* held (a set, get, invalidate or eviction inside runExclusive; TTL expiry).
C22_MutationsUnderMutex ==
  [][\A p \in PolicySet :
       (\/ caches'[p] # caches[p]
        \/ invalidations'[p] # invalidations[p]
        \/ OrderingStructures(policies'[p]) # OrderingStructures(policies[p])) =>
       mutexes[p] # << >>]_vars

\* C23: with evictFromOthers on, every set, get and invalidate call of
\* concurrent callers ends, by a return or by an error: no call waits for a
\* policy mutex forever.
C23_EveryCallEnds ==
  \A pr \in Procs : (calls[pr].pc \notin {"idle", "done"}) ~> (calls[pr].pc = "done")

\* A set evicts from another policy while the other caller waits in the queue
\* of the mutex of that policy.
C23_Witness ==
  \E pr \in Procs :
    /\ calls[pr].pc = "evictOther"
    /\ Len(mutexes[Head(calls[pr].remainingPolicies)]) = 2
    /\ Head(mutexes[Head(calls[pr].remainingPolicies)]) = pr

\* C25: a periodic snapshot whose write fails is logged, leaves the entry
\* tables, the invalidation index, the policies and the calls as they were,
\* and leaves the snapshot interval armed for the next attempt.
C25_FailedSnapshotChangesNothing ==
  [][snapshotTimer'.failures > snapshotTimer.failures =>
       /\ caches' = caches
       /\ policies' = policies
       /\ invalidations' = invalidations
       /\ mutexes' = mutexes
       /\ calls' = calls
       /\ snapshotTimer'.armed]_vars

\* After a failed write the service stored one more cache and the next
\* interval wrote a snapshot that holds it.
C25_Witness ==
  /\ snapshotTimer.failures > 0
  /\ snapshotFile # << >>
  /\ Has(caches["LRU"], GenerateHash("b", TRUE))
  /\ Has(snapshotFile[1].caches["LRU"], GenerateHash("b", TRUE))
  /\ calls[1].op = "get" /\ calls[1].result = "cache"

\* The keys the linked list of an LRU or MRU policy holds, from the least
\* recently used node along the next references.
RECURSIVE LinkedFrom(_, _, _)
LinkedFrom(s, n, fuel) ==
  IF n = NoNode \/ fuel = 0 THEN << >>
  ELSE <<s.nodes[n].key>> \o LinkedFrom(s, s.nodes[n].next, fuel - 1)

LinkedKeys(s) == LinkedFrom(s, s.leastRecentlyUsed, Len(s.nodes))

\* The keys that one of the structures of the policy holds.
KeysHeld(s) ==
  CASE s.policy \in {"LRU", "MRU"} ->
         (DOMAIN s.cacheKeyMap) \cup Range(s.keyOrder) \cup Range(LinkedKeys(s)) \cup DOMAIN s.ttlMap
    [] s.policy \in {"MFU", "LFU"} ->
         (DOMAIN s.cacheKeyMap) \cup UNION {Range(s.keyOrderMap[h]) : h \in DOMAIN s.keyOrderMap}
           \cup DOMAIN s.ttlMap
    [] s.policy = "FIFO" -> s.hashes \cup Range(s.queue) \cup DOMAIN s.ttlMap
    [] s.policy = "RR" -> Range(s.cacheKeys) \cup DOMAIN s.ttlMap

\* C26: when the TTL timer of a tracked key fires, the ttlExpired subscriber
\* of the policy stops tracking the key: no structure of the policy holds the
\* key afterwards, and a later track of the key tracks it as a new key.
C26_ExpiredKeyIsUntracked ==
  [][\A hash \in CacheHashes :
       (hash \in TrackedKeys(pol) /\ PTtlExpired(hash)) =>
         /\ hash \notin KeysHeld(pol')
         /\ Track(pol', hash) # pol'
         /\ hash \in TrackedKeys(Track(pol', hash))]_vars

\* C27: LRU and MRU policies: after any sequence of track, hit, stopTracking
\* and evict the exported keyOrder lists the tracked keys, each once, in the
\* order of the linked list from the least to the most recently used key, and
\* a hit on a tracked key that is not the most recent one moves it to the end.
C27_KeyOrderIsListOrder ==
  pol.policy \in {"LRU", "MRU"} =>
    /\ GetSnapshot(pol).keyOrder = LinkedKeys(pol)
    /\ Range(GetSnapshot(pol).keyOrder) = TrackedKeys(pol)
    /\ Len(GetSnapshot(pol).keyOrder) = Cardinality(TrackedKeys(pol))
    /\ \A hash \in TrackedKeys(pol) :
         hash # KeyOf(pol, pol.mostRecentlyUsed) =>
           GetSnapshot(Hit(pol, hash)).keyOrder =
             Append(Without(GetSnapshot(pol).keyOrder, hash), hash)

\* C28: stopTracking of a tracked key removes the key, and only the key, from
\* the tracked set and the ordering structures, keeps the order and the hit
\* counts of the other keys and cancels the TTL timer of the key;
\* stopTracking of an untracked key changes nothing.
C28_StopTrackingRemovesOnlyKey ==
  \A hash \in CacheHashes :
    LET t == StopTracking(pol, hash)
    IN  IF hash \notin TrackedKeys(pol) THEN t = pol
        ELSE /\ TrackedKeys(t) = TrackedKeys(pol) \ {hash}
             /\ hash \notin KeysHeld(t)
             /\ t.ttlMap = MapDel(pol.ttlMap, hash)
             /\ CASE pol.policy \in {"LRU", "MRU"} ->
                       /\ t.keyOrder = Without(pol.keyOrder, hash)
                       /\ LinkedKeys(t) = Without(LinkedKeys(pol), hash)
                  [] pol.policy = "MFU" ->
                       /\ \A hits \in 0..(MaxHits + 1) :
                            ListAt(t, hits) = Without(ListAt(pol, hits), hash)
                       /\ \A other \in TrackedKeys(t) : t.cacheKeyMap[other] = pol.cacheKeyMap[other]
                  [] pol.policy = "FIFO" -> t.queue = Without(pol.queue, hash)
                  [] OTHER -> TRUE

\* C29: track of a key the policy already tracks changes nothing.
C29_TrackTwiceChangesNothing ==
  \A hash \in TrackedKeys(pol) : Track(pol, hash) = pol

\* C30: a key has at most one TTL timer scheduled, the one its TTL table
\* entry holds: registerTTL(k, d) leaves the timer of delay d as the only
\* timer of k, whether or not k had a timer before, so only the latest
\* registration can expire k; when the timer fires, k leaves the TTL table
\* and no timer of k stays scheduled.
C30_OneTimerPerKey ==
  [][/\ \A hash \in CacheHashes :
          TimeoutsOf(pol', hash) = IF Has(pol'.ttlMap, hash) THEN {pol'.ttlMap[hash]} ELSE {}
     /\ \A hash \in TtlHashes, ttl \in Ttls :
          (PRegisterTTL(hash, ttl) \/ PRescheduleTTL(hash, ttl)) =>
            /\ Cardinality(TimeoutsOf(pol', hash)) = 1
            /\ \A timeout \in TimeoutsOf(pol', hash) : timeout.at = now + ttl
     /\ \A hash \in TtlHashes :
          PTtlExpired(hash) => ~Has(pol'.ttlMap, hash) /\ TimeoutsOf(pol', hash) = {}]_vars

\* The timer of a key was registered again while it was scheduled, with
\* another delay.
C30_Witness ==
  /\ rescheduled
  /\ \E hash \in TtlHashes :
       /\ Has(pol.ttlMap, hash)
       /\ pol.ttlMap[hash].at = now + 2
       /\ TimeoutsOf(pol, hash) = {pol.ttlMap[hash]}

\* C31: clearTTL(k) on a key with a timer takes the timer off the schedule,
\* so ttlExpired(k) cannot be emitted for that registration, and emits
\* ttlCleared once; clearTTL(k) on a key without a timer changes nothing and
\* emits nothing, so a second clearTTL(k) has no further effect; the timers of
\* the other keys stay as they are.
C31_ClearedTimerNeverExpires ==
  [][\A hash \in TtlHashes :
       PClearTTL(hash) =>
         /\ TimeoutsOf(pol', hash) = {}
         /\ ~Has(pol'.ttlMap, hash)
         /\ emitted' = IF Has(pol.ttlMap, hash) THEN <<"ttlCleared">> ELSE << >>
         /\ ~Has(pol.ttlMap, hash) => pol' = pol
         /\ ClearTTL(pol', hash) = pol' /\ ClearTTLEvents(pol', hash) = << >>
         /\ pol'.timeouts = pol.timeouts \ TimeoutsOf(pol, hash)]_vars

\* clearTTL was called on a tracked key whose timer was scheduled, while the
\* timer of the other key stays scheduled.
C31_Witness ==
  /\ emitted = <<"ttlCleared">>
  /\ \E hash \in TtlHashes :
       /\ hash \in TrackedKeys(pol)
       /\ TimeoutsOf(pol, hash) = {}
       /\ \E other \in TtlHashes \ {hash} : TimeoutsOf(pol, other) # {}

\* C32: the invalidation index of a driver holds no invalidation key whose
\* set of cache keys is empty: a delete, a size eviction, a TTL expiry or an
\* invalidate that takes the last cache key out of a set drops the entry of
\* the invalidation key.
C32_NoEmptyInvalidationSet ==
  /\ \A p \in PolicySet : \A invalidationHash \in DOMAIN invalidations[p] :
       invalidations[p][invalidationHash] # {}
  /\ \A p \in DOMAIN fsInvalidationFile : \A invalidationHash \in DOMAIN fsInvalidationFile[p] :
       fsInvalidationFile[p][invalidationHash] # << >>

\* The keys a snapshot of the policy lists.
DumpedKeys(s) ==
  CASE s.policy \in {"LRU", "MRU"} -> Range(GetSnapshot(s).keyOrder)
    [] s.policy \in {"MFU", "LFU"} ->
         UNION {Range(GetSnapshot(s).keyOrderMap[h]) : h \in DOMAIN GetSnapshot(s).keyOrderMap}
    [] s.policy = "FIFO" -> Range(GetSnapshot(s).queue)
    [] s.policy = "RR" -> Range(GetSnapshot(s).cacheKeys)

\* The snapshot of the policy with the keys outside validHashes left out.
DumpedWithin(s, validHashes) ==
  CASE s.policy \in {"LRU", "MRU"} -> [keyOrder |-> Within(GetSnapshot(s).keyOrder, validHashes)]
    [] s.policy \in {"MFU", "LFU"} ->
         [keyOrderMap |-> [h \in DOMAIN GetSnapshot(s).keyOrderMap |->
                             Within(GetSnapshot(s).keyOrderMap[h], validHashes)]]
    [] s.policy = "FIFO" -> [queue |-> Within(GetSnapshot(s).queue, validHashes)]
    [] s.policy = "RR" -> [cacheKeys |-> Within(GetSnapshot(s).cacheKeys, validHashes)]

C34_OthersOnlyWhileNeeded ==
  [][config.evictFromOthers =>
       \A pr \in Procs :
         LET call == calls[pr]
             others == SelectSeq(Policies, LAMBDA policyToCheck : policyToCheck # call.policy)
         IN  /\ (call.pc = "afterTarget" /\ calls'[pr].pc = "evictOther") =>
                  /\ call.hashToEvict = Null
                  /\ calls'[pr].remainingPolicies = others
                  /\ GetCurrentCacheSize(caches) > call.currentMaxSize
             /\ (call.pc = "afterOther" /\ calls'[pr].pc = "evictOther") =>
                  /\ call.hashToEvict = Null
                  /\ calls'[pr].remainingPolicies = Tail(call.remainingPolicies)
                  /\ \E i \in 1..Len(others) :
                       calls'[pr].remainingPolicies = SubSeq(others, i, Len(others))
                  /\ GetCurrentCacheSize(caches) > call.currentMaxSize
             /\ (\E rnd \in Randoms : SetEvictOther(pr, rnd)) =>
                  \A p \in PolicySet \ {Head(call.remainingPolicies)} : caches'[p] = caches[p]]_vars

\* The invalidation index that lists, under each invalidation key, exactly
\* the stored cache keys of table c whose entry is invalidated by it.
RebuiltIndex(c) ==
  LET keys == UNION {InvalidationHashes(c[h]) : h \in DOMAIN c}
  IN  [invalidationHash \in keys |-> {h \in DOMAIN c : invalidationHash \in InvalidationHashes(c[h])}]

\* C35: after the recovery of the memory driver the invalidation index maps,
\* for every restored entry and every identifier of its invalidatedBy, the
\* invalidation key of the identifier to the cache key of the entry, and
\* lists nothing else, so the entries of the snapshot that were dropped as
\* expired are in no set; an invalidate of the identifier then removes every
\* stored entry that is invalidated by it.
C35_RecoveryRebuildsIndex ==
  [][/\ Restart => \A p \in PolicySet : invalidations'[p] = RebuiltIndex(caches'[p])
     /\ \A pr \in Procs :
          InvalidateEvict(pr) =>
            \A h \in DOMAIN caches[calls[pr].policy] :
              calls[pr].hash \in InvalidationHashes(caches[calls[pr].policy][h])
                => ~Has(caches'[calls[pr].policy], h)]_vars

\* A recovery restored an entry that is invalidated by "b", listed in the
\* index, and dropped an expired entry of the snapshot that is invalidated by
\* "b" too.
C35_Witness ==
  /\ JustRecovered
  /\ \E h \in DOMAIN caches["LRU"] :
       /\ InvalidationHashes(caches["LRU"][h]) # {}
       /\ \A invalidationHash \in InvalidationHashes(caches["LRU"][h]) :
            h \in invalidations["LRU"][invalidationHash]
  /\ \E h \in DOMAIN snapshotFile[1].caches["LRU"] :
       /\ InvalidationHashes(snapshotFile[1].caches["LRU"][h]) # {}
       /\ ~Has(caches["LRU"], h)
       /\ \A invalidationHash \in DOMAIN invalidations["LRU"] : h \notin invalidations["LRU"][invalidationHash]

\* C36: a set that fails with CacheTooBig or NoCachesToEvict leaves the TTL
\* timers as they were before the call: the call that fails at once with
\* CacheTooBig changes no timer table and no scheduled timer, and when a call
\* fails with NoCachesToEvict no timer is registered for its key unless the
\* key is stored.
C36_FailedSetKeepsTimers ==
  [][\A pr \in Procs :
       LET call == calls[pr]
       IN  /\ (/\ started' = started + 1
               /\ calls'[pr].op = "set" /\ calls'[pr].pc = "done"
               /\ calls'[pr].result = "CacheTooBig"
               /\ \A other \in Procs \ {pr} : calls'[other] = calls[other])
              => \A p \in PolicySet :
                   /\ policies'[p].ttlMap = policies[p].ttlMap
                   /\ policies'[p].timeouts = policies[p].timeouts
           /\ (/\ SetRunning(call)
               /\ calls'[pr].pc = "done" /\ calls'[pr].result = "NoCachesToEvict")
              => (~Has(caches'[call.policy], call.hash)
                    => ~Has(policies'[call.policy].ttlMap, call.hash))]_vars

\* C37: a get of the memory driver that runs concurrently with an invalidate,
\* a size eviction or a TTL expiry of its key never puts the entry back: the
\* step of get that writes the updated entry adds no key to the entry table,
\* so a key that was removed while the get waited stays out of the table.
C37_GetNeverRestoresRemoved ==
  [][\A pr \in Procs :
       GetHit(pr) =>
         /\ Has(caches[calls[pr].policy], calls[pr].hash)
         /\ \A p \in PolicySet : DOMAIN caches'[p] \subseteq DOMAIN caches[p]]_vars

\* C38: after concurrent get calls on a stored key have all returned, with
\* no other operation on the key since it was stored, the hits of the stored
\* entry is the number of those get calls: every get counts once.
C38_ConcurrentGetsAllCount ==
  Quiescent =>
    \A p \in PolicySet : \A h \in DOMAIN caches[p] :
      Has(expected[p], h) => caches[p][h].hits = expected[p][h].gets

\* C39: an LRU, MRU or MFU policy that was restored by applySnapshot, with
\* any set of valid keys, and then tracked, hit and stopped keys, evicts a
\* key whenever it tracks one: evict() returns null only when no key is
\* tracked.
C39_RestoredPolicyEvicts ==
  pol.policy \in {"LRU", "MRU", "MFU"} =>
    (Evict(pol, 0).hash = Null => TrackedKeys(pol) = {})


\* C40: after a restart of the file-system driver (init on a mount path that
\* already holds cache files), every cache file that is still on disk, and
\* that get can therefore still return, is tracked by its policy, so that
\* size eviction can select it.
C40_RestartTracksFiles ==
  [][FsRestartLater =>
       \A p \in PolicySet : DOMAIN fsFiles'[p] \subseteq TrackedKeys(fsPolicies'[p])]_vars

====
